---- MODULE Spec2Model ----
(***************************************************************************)
(* Model of the aio-irc client: irc/client.py (ServerConnection: connect,  *)
(* disconnect, the read loop _handle_client, _process_line, _handle_event) *)
(* and aiotwirc/__main__.py (Client, main_async).                          *)
(*                                                                         *)
(* asyncio is a cooperative scheduler: every action below is the code a    *)
(* task runs between two suspension points (await of a socket read, a      *)
(* drain, a wait_for, a handler that suspends).                            *)
(***************************************************************************)
EXTENDS Integers, Sequences, FiniteSets, TLC

\* ---------------------------------------------------------------- bounds
MaxConnects == 2      \* sockets opened by connect() in one run
MaxLines    == 2      \* wire lines read by one connection object
MaxSessions == 3      \* sessions started by main_async
MaxInput    == 2      \* items the terminal produces in one run
MaxSends    == 2      \* send_raw calls by users of the connection in one run
MaxLoads    == 2      \* /load and /unload commands in one run
MaxCount    == 2      \* the ping plugin's _counter
MaxTime     == 4      \* the clock of time.time(), in ticks
MaxCalls    == 3      \* calls of spamming() in one run
MaxBytes    == 4      \* bytes of standard input in one run
MaxShowHide == 3      \* calls of show() and hide() by one command
MaxKeys     == 4      \* bytes read from the terminal in raw mode in one run
MaxWrites   == 3      \* calls of the wrapped write() of one stream
MaxDefaults == 2      \* calls of set_default_msg in one run

\* Python's None
None == "None"
\* "no socket / no task": the value of _reader, _writer, _handler_coroutine
\* before connect() (client.py:119) and of _writer after disconnect took it
NoSock == 0
Socks == 1..MaxConnects

\* The interpreters the code runs on (f-strings need 3.6, the loop= argument
\* of wait_for/open_connection is gone in 3.10).  They differ in two ways
\* that the code depends on:
\*   3.6: wait_for() raises TimeoutError right after requesting the cancel;
\*   3.7: wait_for() first awaits the cancelled task;
\*   3.8+: as 3.7 and CancelledError is a BaseException, not an Exception.
PyVersions == {36, 37, 38}

\* Message bodies.  <1> stands for the delimiter byte \x01.
B_plain   == "hello"
B_action  == "<1>ACTION foo<1>"
B_version == "<1>VERSION<1>"
B_two     == "<1>VERSION<1><1>PING 1<1>"
B_tlt     == "<1>VERSION<1>hi<1>PING 1<1>"
B_lt      == "hi<1>VERSION<1>"
TaggedBodies == {B_action, B_version, B_two, B_tlt, B_lt}

\* ------------------------------------------------------------- wire lines
\* A received line after rstrip/decode, as the groups of _cmd_pat see it:
\* match = the regexp matched; prefix/command are the groups; arguments is
\* the argument group already split (message.Arguments.from_group).
Line(m, p, c, a) == [match |-> m, prefix |-> p, command |-> c, arguments |-> a]

L_pubmsg   == Line(TRUE, "nick!u@h", "PRIVMSG", <<"#chan", "hello">>)
L_welcome  == Line(TRUE, "srv", "001", <<"me", "Welcome">>)
L_nomatch  == Line(FALSE, None, None, <<>>)
L_privmsg1 == Line(TRUE, "nick!u@h", "PRIVMSG", <<"#chan">>)
L_quit0    == Line(TRUE, "nick!u@h", "QUIT", <<>>)
L_nicknopfx == Line(TRUE, None, "NICK", <<"other">>)
L_action   == Line(TRUE, "nick!u@h", "PRIVMSG", <<"#chan", B_action>>)

\* the local `line` of _handle_client while no line is being processed
NoLine == Line(FALSE, None, "", <<>>)

Lines == {L_pubmsg, L_welcome, L_nomatch, L_privmsg1, L_quit0, L_nicknopfx,
          L_action}

\* privmsg and notice lines for the command re-derivation of
\* _handle_message: every leading character of a channel name and a
\* nickname as targets of a plain body, and the tagged bodies
Targets == {"#chan", "&chan", "+chan", "!chan", "me"}
MessageLines ==
    {Line(TRUE, "nick!u@h", c, <<t, B_plain>>) :
        c \in {"PRIVMSG", "NOTICE"}, t \in Targets}
    \cup {Line(TRUE, "nick!u@h", c, <<"#chan", b>>) :
        c \in {"PRIVMSG", "NOTICE"}, b \in TaggedBodies}
    \cup {Line(TRUE, "nick!u@h", "PRIVMSG", <<"me", B_action>>)}

\* str.lower() on the command tokens of Lines
lower(s) ==
    CASE s = "PRIVMSG" -> "privmsg"
      [] s = "NOTICE"  -> "notice"
      [] s = "QUIT"    -> "quit"
      [] s = "NICK"    -> "nick"
      [] s = "PING"    -> "ping"
      [] s = "PONG"    -> "pong"
      [] s = "MODE"    -> "mode"
      [] OTHER         -> s

\* events.numeric: the numeric -> symbolic table
numeric == [n \in {"001"} |-> "welcome"]

\* ServerConnection._command_from_group
_command_from_group(group) ==
    LET command == lower(group)
    IN  IF command \in DOMAIN numeric THEN numeric[command] ELSE command

\* NickMask.nick: the part before "!"
NickOf(source) ==
    CASE source = "nick!u@h" -> "nick"
      [] source = "me!u@h"   -> "me"
      [] OTHER               -> source

\* is_channel(string)
is_channel(string) ==
    /\ string # None
    /\ string \in {"#chan", "&chan", "+chan", "!chan"}

\* message.split(DELIMITER) on the bodies above; a body without the
\* delimiter is one chunk
split_delimiter(msg) ==
    CASE msg = B_action  -> <<"", "ACTION foo", "">>
      [] msg = B_version -> <<"", "VERSION", "">>
      [] msg = B_two     -> <<"", "VERSION", "", "PING 1", "">>
      [] msg = B_tlt     -> <<"", "VERSION", "hi", "PING 1", "">>
      [] msg = B_lt      -> <<"hi", "VERSION", "">>
      [] OTHER           -> <<msg>>

\* chunk.split(" ", 1): the tag and, when present, its data
split_tag(chunk) ==
    CASE chunk = "ACTION foo" -> <<"ACTION", "foo">>
      [] chunk = "PING 1"     -> <<"PING", "1">>
      [] OTHER                -> <<chunk>>

\* ctcp.dequote(msg): the literal and tagged segments of a message body
Lit(s) == [tagged |-> FALSE, data |-> <<s>>]
Tagged(d) == [tagged |-> TRUE, data |-> d]

\* the chunks between the delimiters alternate: text outside a pair of
\* delimiters is a literal segment (none when empty), text inside is tagged
RECURSIVE Segments(_, _)
Segments(chunks, i) ==
    IF i > Len(chunks) THEN <<>>
    ELSE (IF i % 2 = 1
          THEN (IF chunks[i] = "" THEN <<>> ELSE <<Lit(chunks[i])>>)
          ELSE <<Tagged(split_tag(chunks[i]))>>)
         \o Segments(chunks, i + 1)

dequote(msg) ==
    LET chunks == split_delimiter(msg)
    IN  IF Len(chunks) = 1 THEN <<Lit(msg)>> ELSE Segments(chunks, 1)

Event(type, source, target, arguments) ==
    [type |-> type, source |-> source, target |-> target,
     arguments |-> arguments]

\* TaggedEvents without the action event of lines 320-322
TaggedEvents_noaction(c2, source, target, data) ==
    <<Event(c2, source, target, data)>>

\* _handle_message, lines 315-322: the events of one tagged segment once
\* the command is re-derived to c2
TaggedEvents(c2, source, target, data) ==
    <<Event(c2, source, target, data)>>
        \o (IF c2 = "ctcp" /\ data[1] = "ACTION"
            THEN <<Event("action", source, target, Tail(data))>>
            ELSE <<>>)

\* ServerConnection._handle_message: the events of a privmsg/notice.  The
\* local `command` is reassigned at a tagged segment (lines 309-313) and
\* stays so for the segments after it.
RECURSIVE MessageEvents(_, _, _, _)
MessageEvents(messages, command, source, target) ==
    IF messages = <<>> THEN <<>>
    ELSE LET m == Head(messages)
         IN IF m.tagged
            THEN LET c2 == IF command \in {"privmsg", "pubmsg"}
                           THEN "ctcp" ELSE "ctcpreply"
                 IN TaggedEvents(c2, source, target, m.data)
                      \o MessageEvents(Tail(messages), c2, source, target)
            ELSE <<Event(command, source, target, m.data)>>
                      \o MessageEvents(Tail(messages), command, source, target)

_handle_message(arguments, command, source) ==
    IF Len(arguments) < 2
    THEN [raised |-> TRUE, events |-> <<>>]
    ELSE LET target == arguments[1]
             msg == arguments[2]
             c2 == IF command = "privmsg"
                   THEN (IF is_channel(target) THEN "pubmsg" ELSE command)
                   ELSE (IF is_channel(target) THEN "pubnotice"
                                               ELSE "privnotice")
         IN [raised |-> FALSE,
             events |-> MessageEvents(dequote(msg), c2, source, target)]

\* ServerConnection._handle_other
_handle_other(arguments, command, source) ==
    IF command \in {"quit", "ping"} /\ arguments = <<>>
    THEN [raised |-> TRUE, events |-> <<>>]
    ELSE LET target == IF command = "quit" THEN None
                       ELSE IF arguments = <<>> THEN None
                       ELSE arguments[1]
             args == IF command = "quit" THEN <<arguments[1]>>
                     ELSE IF command = "ping" THEN arguments
                     ELSE IF arguments = <<>> THEN <<>>
                     ELSE Tail(arguments)
             c2 == IF command = "mode" /\ ~is_channel(target)
                   THEN "umode" ELSE command
         IN [raised |-> FALSE, events |-> <<Event(c2, source, target, args)>>]

\* ServerConnection._process_line after the all_raw_messages dispatch:
\* whether it raises, the events it dispatches and the nickname/server name
\* it records.
ParseLine(line, rsn, rnick) ==
    IF ~line.match
    THEN [raised |-> TRUE, events |-> <<>>, rsn |-> rsn, rnick |-> rnick]
    ELSE
      LET source == line.prefix
          command == _command_from_group(line.command)
          arguments == line.arguments
          rsn2 == IF source # None /\ rsn = "" THEN source ELSE rsn
          nickRaises ==
              \/ command = "nick" /\ source = None
              \/ command = "nick" /\ source # None
                    /\ NickOf(source) = rnick /\ arguments = <<>>
              \/ command = "welcome" /\ arguments = <<>>
          rnick2 ==
              IF nickRaises THEN rnick
              ELSE IF command = "nick" /\ NickOf(source) = rnick
                   THEN arguments[1]
              ELSE IF command = "welcome" THEN arguments[1]
              ELSE rnick
          h == IF command \in {"privmsg", "notice"}
               THEN _handle_message(arguments, command, source)
               ELSE _handle_other(arguments, command, source)
      IN IF nickRaises
         THEN [raised |-> TRUE, events |-> <<>>, rsn |-> rsn2, rnick |-> rnick]
         ELSE [raised |-> h.raised, events |-> h.events,
               rsn |-> rsn2, rnick |-> rnick2]


\* ---------------------------------------------------------- configuration
\* config.PLUGINS (__main__.py:27), in load order
PLUGINS == <<"ping", "log", "say">>
\* config.CHANNELS: one channel joined after the welcome
CHANNELS == <<"chan">>

\* getattr(handler, 'handle_' + type) succeeds: the Client has
\* handle_welcome; ping and log answer every handle_* through __getattr__
\* (ping.py:15, log.py:269); say has handle_pubmsg only (say.py:54)
Exposes(h, type) ==
    \/ h = "client" /\ type = "welcome"
    \/ h \in {"ping", "log"}
    \/ h = "say" /\ type = "pubmsg"

\* the plugin modules of the /load and /unload commands: two of src/handlers
\* and a name no module has
Plugins == {"ping", "log", "say", "highlight"}
Names == Plugins \cup {"nosuch"}
LoadNames == {"ping", "highlight", "nosuch"}
ModuleExists(name) == name \in Plugins

\* the hooks the Handler classes define (ping.py:84-107, log.py:120-128,
\* say.py:8-16, highlight.py:6-8); every one of them has load
HasReload(name) == name \in {"ping", "log", "say"}
HasUnload(name) == name \in {"ping", "log"}

\* the instances a run can create; 0 stands for None
Insts == 1..(3 * MaxSessions + MaxLoads)

\* Client.subhandlers after the loop of Client.connect (__main__.py:71-73)
\* over PLUGINS, for a Client made when base instances exist: the new
\* instance registered under each name
LoadedFrom(base) ==
    [name \in Names |->
        CASE name = "ping" -> base + 1 [] name = "log" -> base + 2
          [] name = "say" -> base + 3
          [] OTHER -> 0]

\* the registry of the first Client
InstOfLoaded == LoadedFrom(0)

\* where load_subhandler or the reload hook can fail
Phases == {"none", "import", "reload_module", "no_class", "init",
           "load_hook"}
NoLoad == [name |-> None, phase |-> None, outcome |-> None]

\* getattr(handler, '__name__') in the except block of event_handler
\* (__main__.py:136): handlers are instances and instances have no __name__
HasNameAttr(h) == FALSE

\* A string given to send_raw: how many of its characters take one byte in
\* UTF-8 and how many take two, and whether it contains a newline (which is
\* one of the one-byte characters)
Str(a, w, nl) == [ascii |-> a, wide |-> w, newline |-> nl]
SendStrings ==
    {Str(510, 0, FALSE), Str(511, 0, FALSE), Str(508, 1, FALSE),
     Str(509, 1, FALSE), Str(5, 0, TRUE), Str(511, 0, TRUE)}

\* len(string.encode('utf-8'))
Utf8Len(string) == string.ascii + 2 * string.wide
\* len(string)
CharLen(string) == string.ascii + string.wide

\* lastSend before the first call
NoSend == [string |-> Str(0, 0, FALSE), outcome |-> None, sock |-> NoSock]

\* ------------------------------------------------------------------ state
VARIABLES
    pyver,               \* the interpreter of this run
    faulty,              \* the callables of this run whose code can raise
    connected_event,     \* ServerConnection.connected_event.is_set()
    disconnected_event,  \* ServerConnection.disconnected_event.is_set()
    _reader,             \* socket behind self._reader (NoSock = None)
    _writer,             \* socket behind self._writer (NoSock = None)
    _handler_coroutine,  \* the read-loop task of the latest connect()
    handler,             \* the primary handler given to __init__ (or None)
    handlers,            \* self.handlers: event type -> list of callables
    real_server_name, real_nickname,
    nsock,               \* sockets opened so far
    eofWritten,          \* per socket: number of write_eof() calls
    aborted,             \* per socket: transport.abort() was called
    wrote,               \* per socket: the commands written, in order
    hpc,                 \* per read-loop task: where it is suspended
    hcancel,             \* per read-loop task: a cancel() is pending
    cur,                 \* per read-loop task: the line being processed
    pend,                \* per read-loop task: its events not yet dispatched
    nread,               \* lines read so far
    loopLog,             \* per read-loop task: what it logged when it ended
    dpc,                 \* per disconnect() caller: where it is suspended
    held,                \* per disconnect() caller: its local `writer`
    waitOn,              \* per disconnect() caller: the task given to wait_for
    cpc,                 \* where the connect() call is suspended
    c_args,              \* _saved_connect_args: caps and password given
    regTodo,             \* registration commands connect() has yet to send
    eventLog,            \* the events given to _handle_event, in order
    lastCalls,           \* the last _handle_event: the event type, the list
                         \* registered under it, the callables invoked
    lastFanout,          \* the last Client.event_handler: the event type,
                         \* the plugin registry, the handlers invoked
    \* ---- aiotwirc: Client and main_async
    mpc,                 \* where main_async is ("none": no session loop)
    welcomed,            \* Client.welcomed.is_set()
    ipc,                 \* per ping instance, where its _idle_ping task is:
                         \* "idle" in the wait for the idle interval, "pong"
                         \* in _ping awaiting the PONG of its counter, "sleep"
                         \* in the sleep after the PING timeout
    intentional_disconnect,
    subhandlers,         \* Client.subhandlers: the loaded plugins, in order
    readlines,           \* Client.readlines: "unset", "open" or "closed"
    spc,                 \* where the handle_stdin task is suspended
    scancel,             \* a cancel() of the handle_stdin task is pending
    queue,               \* AsyncReadlinesTermios.queue
    ninput,              \* terminal items produced so far
    typed,               \* history: the items produced during this session
    quit_issued,         \* history: command_quit has been called
    delay,               \* main_async's delay
    short,               \* t2 - t1 < 60 for the session that just ended
    nsession,            \* sessions started so far
    sessionLog,          \* history: "short" or "long" for every session
                         \* that ended unintentionally
    \* ---- send_raw called by a user of the connection
    nsend,               \* calls so far
    lastSend,            \* history: the string of the last call, how the
                         \* call ended, the socket it wrote to
    \* ---- the plugin host (Client.command_load, command_unload)
    instOf,              \* the instance registered under each name (0: none);
                         \* subhandlers holds the keys in order
    counter,             \* per instance of the ping plugin: _counter
    pingTask,            \* the ping instances whose _idle_ping_task runs
    imported,            \* the plugin modules in sys.modules
    ninst,               \* instances created so far
    nload,               \* /load and /unload commands so far
    instBase,            \* the instances above it belong to the current
                         \* Client, the others to the Clients before it
    unloading,           \* the instance whose unload hook command_unload
                         \* awaits (0: none)
    lastHooks,           \* history: the hooks the last command called
    lastLoad,            \* history: the last /load: name, failing phase,
                         \* how it ended
    \* ---- aiotwirc.timer
    TIMES,               \* timer.TIMES: the time stored under the caller key
                         \* (NoTime: no entry)
    now,                 \* time.time()
    spamLog,             \* history: the calls of spamming(): time, seconds,
                         \* result
    \* ---- aiotwirc.stdio.AsyncReadlinesDumb
    stdin,               \* the bytes of standard input not read yet
    d_reader,            \* on_readable is registered with the loop
    d_buf,               \* self.buf
    d_queue,             \* self.queue
    d_done,              \* __anext__ has raised StopAsyncIteration
    yielded,             \* history: the lines __anext__ returned
    consumed,            \* history: the chunks read1 returned
    commands,            \* per plugin module: the verbs x of its command_x
    routed,              \* history: the last call of find_command
    invoked,             \* history: the last callable input_command awaited
    sh_pc,               \* where handle_stdin is with the current line
    _calls,              \* ShowHide._calls of the current line
    effects,             \* history: linedata.show/hide calls performed
    requests,            \* history: ShowHide.show/hide calls of the line
    nlines,              \* lines consumed by the input loop
    nreconnect,          \* history: calls of ServerConnection.reconnect()
    \* ---- AsyncReadlinesTermios (stdio.py:67-188): bytes are their codes
    t_buf,               \* self.buf, the pending input line
    t_queue,             \* self.queue: lines and the eof marker
    t_echo,              \* what the last on_readable wrote to stdout
    t_key,               \* history: the last result of read1(1)
    nkeys,               \* results of read1(1) so far
    \* ---- wrap_write of one stream (stdio.py:109-134)
    write_buf,           \* the closure's write_buf, a str
    w_pc,                \* "wrapped" inside the with block, then "exited"
    w_out,               \* what the stream was handed, in order: by
                         \* fp.buffer.write (bytes) or the old write (str)
    w_written,           \* history: all the text passed to write()
    nwrites,             \* calls of write() so far
    \* ---- failures of operator commands (__main__.py:234-246)
    printed,             \* what input_command printed: exception classes
    raised,              \* history: the exceptions commands raised
    \* ---- Client.set_default_msg (__main__.py:113-120): text is a
    \* sequence of code points
    last_buffer_set,     \* self.last_buffer_set, '' while it is not set
    t_put,               \* history: self.buf as the last set_buffer left it
    d_call,              \* history: the last call, its msg and what it did
    ndefault             \* calls of set_default_msg so far

connVars == <<connected_event, disconnected_event>>
sockVars == <<_reader, _writer, _handler_coroutine, nsock>>
transVars == <<eofWritten, aborted, wrote>>
nameVars == <<real_server_name, real_nickname>>
loopVars == <<hpc, hcancel, cur, pend, nread, loopLog>>
dispVars == <<eventLog, lastCalls, lastFanout, welcomed, ipc>>
clientVars == <<intentional_disconnect, subhandlers, readlines>>
stdinVars == <<scancel, queue, ninput, typed, quit_issued>>
mainVars == <<delay, short, nsession, sessionLog>>
sendVars == <<nsend, lastSend>>
plugVars == <<instOf, counter, pingTask, imported, ninst, nload, instBase,
              unloading,
              lastHooks, lastLoad>>

timerVars == <<TIMES, now, spamLog>>

\* the variables of the modules that are used on their own
dumbVars == <<stdin, d_reader, d_buf, d_queue, d_done, yielded, consumed>>
routeVars == <<commands, routed, invoked>>
shVars == <<sh_pc, _calls, effects, requests, nlines>>
editVars == <<t_buf, t_queue, t_echo, t_key, nkeys>>
wrapVars == <<write_buf, w_pc, w_out, w_written, nwrites>>
failVars == <<printed, raised>>
defVars == <<last_buffer_set, t_put, d_call, ndefault>>
extVars == <<nreconnect, editVars, wrapVars, failVars, defVars>>
modVars == <<timerVars, dumbVars, routeVars, shVars, extVars>>

vars == <<modVars, pyver, faulty, connVars, sockVars, handler, handlers, nameVars, transVars,
          loopVars, dpc, held, waitOn, cpc, c_args, regTodo, dispVars,
          mpc, clientVars, spc, stdinVars, mainVars, sendVars, plugVars>>

\* callers of ServerConnection.disconnect(): connect() itself
\* (client.py:172), the terminal task (__main__.py:111, 209) and the ping
\* plugin's timeout branch (ping.py:56)
Callers == {"connect", "stdin", "ping"}

\* the functions put in self.handlers (scripts/irccat.py:146-147)
Fns == {"f1", "f2"}
EventTypes == {"disconnect", "pubmsg"}

\* everything that can raise when the dispatch bus invokes it
Raisers == Fns \cup {"primary", "ping", "log", "say"}

CancelledErrorIsException == pyver < 38
WaitForAwaitsCancel == pyver >= 37

\* ServerConnection.__init__ (both events are created unset)
ConnInit ==
    /\ connected_event = FALSE
    /\ disconnected_event = FALSE
    /\ _reader = NoSock /\ _writer = NoSock /\ _handler_coroutine = NoSock
    /\ handlers = <<>>
    /\ real_server_name = "" /\ real_nickname = None
    /\ nsock = 0
    /\ eofWritten = [s \in Socks |-> 0]
    /\ aborted = [s \in Socks |-> FALSE]
    /\ wrote = [s \in Socks |-> <<>>]
    /\ hpc = [s \in Socks |-> "none"]
    /\ hcancel = [s \in Socks |-> FALSE]
    /\ cur = [s \in Socks |-> NoLine]
    /\ pend = [s \in Socks |-> <<>>]
    /\ nread = 0
    /\ loopLog = [s \in Socks |-> ""]
    /\ dpc = [c \in Callers |-> "idle"]
    /\ held = [c \in Callers |-> NoSock]
    /\ waitOn = [c \in Callers |-> NoSock]
    /\ cpc = "idle"
    /\ c_args = [caps |-> FALSE, password |-> FALSE]
    /\ regTodo = <<>>
    /\ eventLog = <<>>
    /\ lastCalls = [type |-> None, registered |-> <<>>, invoked |-> <<>>]
    /\ lastFanout = [type |-> None, registry |-> <<>>, invoked |-> <<>>]
    /\ ipc = [i \in Insts |-> "idle"]
    /\ nsend = 0
    /\ lastSend = NoSend

\* TIMES.get(caller) without an entry
NoTime == -1

\* timer.py:5: TIMES = {}
TimerInit ==
    /\ TIMES = NoTime
    /\ now = 0
    /\ spamLog = <<>>

\* AsyncReadlinesDumb.__init__ (stdio.py:15-20) and __aiter__ (44), for the
\* bytes input on standard input
DumbInit(input) ==
    /\ stdin = input
    /\ d_reader = TRUE
    /\ d_buf = <<>>
    /\ d_queue = <<>>
    /\ d_done = FALSE
    /\ yielded = <<>>
    /\ consumed = <<>>

\* the commands of the Handler classes of src/handlers: ping.py:20-34,
\* say.py:34; log.py and highlight.py define none
SourceCommands ==
    [name \in Plugins |->
        CASE name = "ping" -> {"pingevery", "pingnow"}
          [] name = "say" -> {"say"}
          [] OTHER -> {}]

NoFn == [kind |-> "none", name |-> "", owner |-> ""]
NoRoute == [method |-> None, fn |-> NoFn, registry |-> <<>>]

\* the plugin modules on disk with the commands of table; no line typed yet
RouteInit(table) ==
    /\ commands = table
    /\ routed = NoRoute
    /\ invoked = NoFn

\* handle_stdin before its first line
ShInit ==
    /\ sh_pc = "next"
    /\ _calls = 0
    /\ effects = <<>>
    /\ requests = <<>>
    /\ nlines = 0

\* AsyncReadlinesTermios.__init__ (stdio.py:68-75)
EditInit ==
    /\ t_buf = <<>>
    /\ t_queue = <<>>
    /\ t_echo = <<>>
    /\ t_key = None
    /\ nkeys = 0

\* wrap_write up to its yield (stdio.py:111-130)
WrapInit ==
    /\ write_buf = <<>>
    /\ w_pc = "wrapped"
    /\ w_out = <<>>
    /\ w_written = <<>>
    /\ nwrites = 0

\* no call of reconnect() yet, a new terminal reader that iterates
ExtInit ==
    /\ nreconnect = 0
    /\ EditInit
    /\ WrapInit
    /\ printed = <<>>
    /\ raised = <<>>
    /\ last_buffer_set = <<>>
    /\ t_put = <<>>
    /\ d_call = [msg |-> <<>>, did |-> None]
    /\ ndefault = 0

\* the modules after import, nothing on standard input
ModulesInit ==
    /\ TimerInit /\ DumbInit(<<>>) /\ RouteInit(SourceCommands) /\ ShInit
    /\ ExtInit

\* Client.__init__ (__main__.py:58-68) and the locals of main_async before
\* its loop (line 267); mpc says where main_async is
ClientInit ==
    /\ welcomed = FALSE
    /\ intentional_disconnect = FALSE
    /\ subhandlers = <<>>
    /\ readlines = "unset"
    /\ spc = "none"
    /\ scancel = FALSE
    /\ queue = <<>>
    /\ ninput = 0
    /\ typed = <<>>
    /\ quit_issued = FALSE
    /\ delay = 0
    /\ short = FALSE
    /\ nsession = 0
    /\ sessionLog = <<>>

\* Client.__init__: self.subhandlers = {}
NoPlugins ==
    /\ instOf = [name \in Names |-> 0]
    /\ counter = [i \in Insts |-> 0]
    /\ pingTask = {}
    /\ imported = {}
    /\ ninst = 0
    /\ nload = 0
    /\ instBase = 0
    /\ unloading = 0
    /\ lastHooks = <<>>
    /\ lastLoad = NoLoad

\* the plugins of PLUGINS are loaded (Client.connect, __main__.py:71-73)
PluginsLoaded ==
    /\ instOf = InstOfLoaded
    /\ counter = [i \in Insts |-> 0]
    /\ pingTask = {InstOfLoaded["ping"]}
    /\ imported = {PLUGINS[i] : i \in DOMAIN PLUGINS}
    /\ ninst = 3
    /\ nload = 0
    /\ instBase = 0
    /\ unloading = 0
    /\ lastHooks = <<>>
    /\ lastLoad = NoLoad

\* no Client, no session loop: the connection is used on its own
NoSession == ClientInit /\ NoPlugins /\ mpc = "none"

\* main_async is about to make its first Client
SessionInit == ClientInit /\ NoPlugins /\ mpc = "start"

\* ------------------------------------------------------- the dispatch bus
\* the longest prefix of fns that ends at the first callable that raises
RECURSIVE UntilRaise(_, _)
UntilRaise(fns, raisers) ==
    IF fns = <<>> THEN <<>>
    ELSE IF Head(fns) \in raisers THEN <<Head(fns)>>
    ELSE <<Head(fns)>> \o UntilRaise(Tail(fns), raisers)

RECURSIVE SelectExposing(_, _)
SelectExposing(hs, type) ==
    IF hs = <<>> THEN <<>>
    ELSE IF Exposes(Head(hs), type)
         THEN <<Head(hs)>> \o SelectExposing(Tail(hs), type)
         ELSE SelectExposing(Tail(hs), type)

\* the loop of Client.event_handler over hs: a method that raises is caught,
\* but the except block itself raises unless the handler has __name__
RECURSIVE FanLoop(_, _)
FanLoop(hs, raisers) ==
    IF hs = <<>> THEN <<>>
    ELSE IF Head(hs) \in raisers /\ ~HasNameAttr(Head(hs))
         THEN <<Head(hs)>>
    ELSE <<Head(hs)>> \o FanLoop(Tail(hs), raisers)

\* Client.event_handler: the handlers (the client first, then the plugins in
\* registry order) whose handle_<type> is invoked
event_handler(type, raisers) ==
    IF type = "all_raw_messages" THEN <<>>
    ELSE FanLoop(SelectExposing(<<"client">> \o subhandlers, type), raisers)

\* Client.event_handler lets an exception escape
event_handler_raises(type, raisers) ==
    LET inv == event_handler(type, raisers)
    IN  /\ inv # <<>>
        /\ inv[Len(inv)] \in raisers
        /\ ~HasNameAttr(inv[Len(inv)])

\* self.handlers[type], or no function when the type is not a key
Registered(type) == IF type \in DOMAIN handlers THEN handlers[type] ELSE <<>>

\* the primary handler raises on an event of this type
PrimaryRaises(type, raisers) ==
    IF handler = "event_handler" THEN event_handler_raises(type, raisers)
    ELSE "primary" \in raisers

\* ServerConnection._handle_event: the callables invoked for an event of
\* the given type when the callables in raisers raise.  One try block
\* encloses the primary handler and the loop over self.handlers[type].
_handle_event(type, raisers) ==
    LET registered == Registered(type)
    IN  IF handler # None
        THEN (IF PrimaryRaises(type, raisers) THEN <<handler>>
              ELSE <<handler>> \o UntilRaise(registered, raisers))
        ELSE UntilRaise(registered, raisers)

\* the callables an event of this type can reach: only they can raise
Invocable(type) ==
    (IF handler = "event_handler"
     THEN {h \in Raisers : \E i \in DOMAIN subhandlers :
                              subhandlers[i] = h /\ Exposes(h, type)}
     ELSE IF handler # None THEN {"primary"} ELSE {})
    \cup {Registered(type)[i] : i \in DOMAIN Registered(type)}

\* str(n) of a ping counter
str(n) == <<"1", "2", "3", "4", "5", "6", "7", "8", "9">>[n]

\* Event.args (client.py:639-641): ' '.join(self.arguments)
args(ev) ==
    IF ev.arguments = <<>> THEN ""
    ELSE IF Len(ev.arguments) = 1 THEN ev.arguments[1]
    ELSE "several"

\* one call of _handle_event by the connection on socket s
Dispatch(ev, s) ==
    /\ eventLog' = Append(eventLog, [type |-> ev.type, sock |-> s, ev |-> ev])
    /\ \E raisers \in SUBSET (Invocable(ev.type) \cap faulty) :
          /\ lastCalls' = [type |-> ev.type,
                           registered |-> Registered(ev.type),
                           invoked |-> _handle_event(ev.type, raisers)]
          /\ lastFanout' = IF handler = "event_handler"
                           THEN [type |-> ev.type,
                                 registry |-> subhandlers,
                                 invoked |-> event_handler(ev.type, raisers)]
                           ELSE lastFanout
    \* Client.handle_welcome, the first handler of the fan-out
    /\ welcomed' = (welcomed \/ (handler = "event_handler"
                                   /\ ev.type = "welcome"))
    \* Handler.handle_pong of the registered ping instance (ping.py:77-82):
    \* self._pongs[event.args].set_result(None) ends the wait of _ping
    /\ ipc' = IF /\ handler = "event_handler"
                 /\ ev.type = "pong"
                 /\ \E k \in DOMAIN subhandlers : subhandlers[k] = "ping"
                 /\ instOf["ping"] \in pingTask
                 /\ ipc[instOf["ping"]] = "pong"
                 /\ args(ev) = str(counter[instOf["ping"]])
              THEN [ipc EXCEPT ![instOf["ping"]] = "idle"]
              ELSE ipc

\* ------------------------------------------------------------- send_raw
\* send_raw_check without the check of the writer handle (lines 375-377)
send_raw_check_nowriter(conn, w) ==
    IF ~conn THEN "NotConnected"
    ELSE "ok"

\* ServerConnection.send_raw up to its write: what the two checks decide
send_raw_check(conn, w) ==
    IF ~conn THEN "NotConnected"
    ELSE IF w = NoSock THEN "ShuttingDown"
    ELSE "ok"

\* writer.write(...) of one command on socket s
Written(s, cmd) == [wrote EXCEPT ![s] = Append(@, cmd)]

\* _prep_message with the limit applied to the characters, not the bytes
_prep_message_chars(string) ==
    IF string.newline THEN "InvalidCharacters"
    ELSE IF CharLen(string) + 2 > 512 THEN "MessageTooLong"
    ELSE "ok"

\* ServerConnection._prep_message: the exception it raises, or "ok" when it
\* returns the bytes
_prep_message(string) ==
    IF string.newline THEN "InvalidCharacters"
    ELSE IF Utf8Len(string) + 2 > 512 THEN "MessageTooLong"
    ELSE "ok"

\* ServerConnection.send_raw up to its await of drain (lines 373-380): the
\* two checks, _prep_message, writer.write
send_raw(string) ==
    LET chk == send_raw_check(connected_event, _writer)
        outcome == IF chk # "ok" THEN chk ELSE _prep_message(string)
    IN  /\ lastSend' = [string |-> string, outcome |-> outcome,
                        sock |-> _writer]
        /\ wrote' = IF outcome = "ok" THEN Written(_writer, "RAW") ELSE wrote

\* a user of the connection calls send_raw
Send(string) ==
    /\ mpc = "none"
    /\ nsend < MaxSends
    /\ nsend' = nsend + 1
    /\ send_raw(string)
    /\ UNCHANGED <<modVars, pyver, faulty, plugVars, connVars, sockVars, handler, handlers,
                   nameVars, eofWritten, aborted, loopVars, dpc, held,
                   waitOn, cpc, c_args, regTodo, dispVars, mpc, clientVars,
                   spc, stdinVars, mainVars>>

\* ------------------------------------------------------------ disconnect
\* disconnect_entry without the check of self.connected (lines 212-213)
disconnect_entry_nocheck(conn, w) ==
    IF w = NoSock THEN "returned_busy"
    ELSE "teardown"

\* ServerConnection.disconnect, lines 212-217: return at once or tear down
disconnect_entry(conn, w) ==
    IF ~conn THEN "returned_early"
    ELSE IF w = NoSock THEN "returned_busy"  \* another disconnect in progress
    ELSE "teardown"

\* what the caller of connect() does when connect() returns or raises:
\* main_async goes on to wait for the welcome (Client.connect,
\* __main__.py:85) or dies of the exception
ConnectReturn(outcome) ==
    /\ cpc' = outcome
    /\ mpc' = IF mpc = "connecting"
              THEN (IF outcome = "returned" THEN "wait_welcome" ELSE "crashed")
              ELSE mpc

\* what the handle_stdin task does when its disconnect() call ends.
\* ctx = "cmd": inside command_quit (__main__.py:209-210) under the
\* try/except Exception of input_command, after which the input loop asks
\* for the next line; ctx = "eof": the last statement of handle_stdin.
StdinAfter(ctx, outcome) ==
    spc' = IF ctx = "eof"
           THEN (IF outcome = "returned" THEN "done" ELSE "cancelled")
           ELSE (IF outcome = "returned" \/ CancelledErrorIsException
                 THEN "get" ELSE "cancelled")

\* the code that runs, without a suspension in between, when the
\* disconnect() call of caller c returns or raises
DisconnectReturn(c, outcome) ==
    IF c = "connect"
    THEN /\ dpc' = [dpc EXCEPT ![c] = "idle"]
         /\ UNCHANGED spc
         /\ IF outcome = "returned"
            THEN \* client.py:174-186, up to await open_connection
                 /\ handlers' = <<>>
                 /\ real_server_name' = ""
                 /\ real_nickname' = "me"
                 /\ cpc' = "opening"
                 /\ UNCHANGED mpc
            ELSE /\ ConnectReturn("raised")
                 /\ UNCHANGED <<handlers, nameVars>>
    ELSE IF c = "stdin" /\ mpc # "none"
    THEN /\ dpc' = [dpc EXCEPT ![c] = "idle"]
         /\ StdinAfter(IF spc = "eof_disconnect" THEN "eof" ELSE "cmd",
                       outcome)
         /\ UNCHANGED <<cpc, mpc, handlers, nameVars>>
    ELSE /\ dpc' = [dpc EXCEPT ![c] = outcome]
         /\ UNCHANGED <<cpc, mpc, spc, handlers, nameVars>>

retVars == <<dpc, cpc, mpc, spc, handlers, nameVars>>

\* the task that runs the disconnect() call of caller c has a cancel()
\* pending: its next step is the delivery of the CancelledError
CancelPending(c) == c = "stdin" /\ scancel

\* TakeWriter with `self._writer = None` left out of line 214
TakeWriter_keep(c) ==
    /\ held' = [held EXCEPT ![c] = _writer]
    /\ _writer' = _writer
    /\ eofWritten' = [eofWritten EXCEPT ![_writer] = @ + 1]
    /\ dpc' = [dpc EXCEPT ![c] = "drain"]

\* disconnect(), lines 214-220: take the writer, half-close, await drain
TakeWriter(c) ==
    /\ held' = [held EXCEPT ![c] = _writer]
    /\ _writer' = NoSock
    /\ eofWritten' = [eofWritten EXCEPT ![_writer] = @ + 1]
    /\ dpc' = [dpc EXCEPT ![c] = "drain"]

\* disconnect(), line 231: the synthetic disconnect event, then return
DisconnectFinish(c) ==
    /\ Dispatch(Event("disconnect", "server", "", <<"message">>), held[c])
    /\ DisconnectReturn(c, "returned")

\* disconnect(), line 224: drain is over, wait_for(self._handler_coroutine)
\* begins.  From 3.8 on wait_for returns at once when the task is finished.
DisconnectDrained(c) ==
    /\ dpc[c] = "drain" /\ ~CancelPending(c)
    /\ waitOn' = [waitOn EXCEPT ![c] = _handler_coroutine]
    /\ IF pyver >= 38 /\ hpc[_handler_coroutine] = "done"
       THEN DisconnectFinish(c)
       ELSE IF pyver >= 38 /\ hpc[_handler_coroutine] = "cancelled"
       THEN DisconnectReturn(c, "raised") /\ UNCHANGED dispVars
       ELSE /\ dpc' = [dpc EXCEPT ![c] = "wait"]
            /\ UNCHANGED <<cpc, mpc, spc, handlers, nameVars, dispVars>>
    /\ UNCHANGED <<modVars, pyver, faulty, sendVars, plugVars, connVars, sockVars, handler, transVars, loopVars,
                   held, c_args, regTodo, clientVars, stdinVars, mainVars>>

\* wait_for returns because the read-loop task has finished
DisconnectWaitDone(c) ==
    /\ dpc[c] = "wait" /\ ~CancelPending(c)
    /\ hpc[waitOn[c]] \in {"done", "cancelled"}
    /\ IF hpc[waitOn[c]] = "done"
       THEN DisconnectFinish(c)
       ELSE DisconnectReturn(c, "raised") /\ UNCHANGED dispVars
    /\ UNCHANGED <<modVars, pyver, faulty, sendVars, plugVars, connVars, sockVars, handler, transVars, loopVars,
                   held, waitOn, c_args, regTodo, clientVars, stdinVars,
                   mainVars>>

\* the timeout of wait_for expires (lines 226-230): the task is cancelled;
\* 3.6 raises TimeoutError at once, 3.7+ first awaits the cancelled task
DisconnectTimeout(c) ==
    /\ dpc[c] = "wait" /\ ~CancelPending(c)
    /\ hpc[waitOn[c]] \notin {"done", "cancelled"}
    /\ hcancel' = [hcancel EXCEPT ![waitOn[c]] = TRUE]
    /\ IF WaitForAwaitsCancel
       THEN /\ dpc' = [dpc EXCEPT ![c] = "cancelwait"]
            /\ UNCHANGED <<cpc, mpc, spc, handlers, nameVars, dispVars,
                           aborted>>
       ELSE /\ aborted' = [aborted EXCEPT ![held[c]] = TRUE]
            /\ DisconnectFinish(c)
    /\ UNCHANGED <<modVars, pyver, faulty, sendVars, plugVars, connVars, sockVars, handler, eofWritten, wrote,
                   hpc, cur, pend, nread, loopLog, held, waitOn, c_args,
                   regTodo, clientVars, stdinVars, mainVars>>

\* 3.7+: the cancelled task has ended, wait_for raises TimeoutError
DisconnectAfterCancel(c) ==
    /\ dpc[c] = "cancelwait" /\ ~CancelPending(c)
    /\ hpc[waitOn[c]] \in {"done", "cancelled"}
    /\ aborted' = [aborted EXCEPT ![held[c]] = TRUE]
    /\ DisconnectFinish(c)
    /\ UNCHANGED <<modVars, pyver, faulty, sendVars, plugVars, connVars, sockVars, handler, eofWritten, wrote,
                   loopVars, held, waitOn, c_args, regTodo, clientVars,
                   stdinVars, mainVars>>

\* ------------------------------------------------- callers outside the model
\* a user of the connection (the ping plugin's timeout branch, ping.py:56;
\* without a session loop also any other task) calls disconnect()
ExtDisconnect(c) ==
    /\ c = "ping" \/ (c = "stdin" /\ mpc = "none")
    /\ mpc \in {"none", "wait_welcome", "joining", "wait_disc"}
    /\ dpc[c] \in {"idle", "returned", "returned_early", "returned_busy",
                 "raised"}
    /\ IF disconnect_entry(connected_event, _writer) # "teardown"
       THEN /\ dpc' = [dpc EXCEPT ![c] =
                           disconnect_entry(connected_event, _writer)]
            /\ UNCHANGED <<held, _writer, eofWritten>>
       ELSE TakeWriter(c)
    /\ UNCHANGED <<modVars, pyver, faulty, sendVars, plugVars, connVars, _reader, _handler_coroutine, nsock,
                   handler, handlers, nameVars, aborted, wrote, loopVars,
                   waitOn, cpc, c_args, regTodo, dispVars, mpc, clientVars,
                   spc, stdinVars, mainVars>>

\* ------------------------------------------------------------ the read loop
\* LoopEnds with disconnected_event.set() left out (lines 240, 252)
LoopEnds_noset(t, failure) ==
    /\ connected_event' = FALSE
    /\ disconnected_event' = disconnected_event
    /\ wrote' = IF /\ failure
                   /\ _writer # NoSock
                   /\ send_raw_check(connected_event', _writer) = "ok"
                THEN Written(_writer, "QUIT")
                ELSE wrote
    /\ IF disconnect_entry(connected_event', _writer) # "teardown"
       THEN /\ hpc' = [hpc EXCEPT ![t] = "done"]
            /\ UNCHANGED <<_writer, eofWritten>>
       ELSE \* the task would go on to wait for itself in wait_for
            /\ hpc' = [hpc EXCEPT ![t] = "self_wait"]
            /\ _writer' = NoSock
            /\ eofWritten' = [eofWritten EXCEPT ![_writer] = @ + 1]
    /\ cur' = [cur EXCEPT ![t] = NoLine]
    /\ pend' = [pend EXCEPT ![t] = <<>>]
    /\ loopLog' = [loopLog EXCEPT ![t] = IF failure THEN "readline() failed"
                                                    ELSE "EOF from server"]

\* _handle_client, lines 239-247 and 251-255: the connection is marked
\* disconnected, a best-effort quit after a read failure, disconnect(), break
LoopEnds(t, failure) ==
    /\ connected_event' = FALSE
    /\ disconnected_event' = TRUE
    /\ wrote' = IF /\ failure
                   /\ _writer # NoSock
                   /\ send_raw_check(connected_event', _writer) = "ok"
                THEN Written(_writer, "QUIT")
                ELSE wrote
    /\ IF disconnect_entry(connected_event', _writer) # "teardown"
       THEN /\ hpc' = [hpc EXCEPT ![t] = "done"]
            /\ UNCHANGED <<_writer, eofWritten>>
       ELSE \* the task would go on to wait for itself in wait_for
            /\ hpc' = [hpc EXCEPT ![t] = "self_wait"]
            /\ _writer' = NoSock
            /\ eofWritten' = [eofWritten EXCEPT ![_writer] = @ + 1]
    /\ cur' = [cur EXCEPT ![t] = NoLine]
    /\ pend' = [pend EXCEPT ![t] = <<>>]
    /\ loopLog' = [loopLog EXCEPT ![t] = IF failure THEN "readline() failed"
                                                    ELSE "EOF from server"]

\* readline() returns b'' (the peer closed)
ReadEOF(t) ==
    /\ hpc[t] = "read" /\ ~hcancel[t]
    /\ LoopEnds(t, FALSE)
    /\ UNCHANGED <<modVars, pyver, faulty, sendVars, plugVars, _reader, _handler_coroutine, nsock, handler,
                   handlers, nameVars, aborted, hcancel, nread, dpc, held,
                   waitOn, cpc, c_args, regTodo, dispVars, mpc, clientVars,
                   spc, stdinVars, mainVars>>

\* readline() raises
ReadError(t) ==
    /\ hpc[t] = "read" /\ ~hcancel[t]
    /\ LoopEnds(t, TRUE)
    /\ UNCHANGED <<modVars, pyver, faulty, sendVars, plugVars, _reader, _handler_coroutine, nsock, handler,
                   handlers, nameVars, aborted, hcancel, nread, dpc, held,
                   waitOn, cpc, c_args, regTodo, dispVars, mpc, clientVars,
                   spc, stdinVars, mainVars>>

\* readline() returns a line that is blank after rstrip (line 258)
ReadBlank(t) ==
    /\ hpc[t] = "read" /\ ~hcancel[t]
    /\ nread < MaxLines
    /\ nread' = nread + 1
    /\ UNCHANGED <<modVars, pyver, faulty, sendVars, plugVars, connVars, sockVars, handler, handlers, nameVars,
                   transVars, hpc, hcancel, cur, pend, loopLog, dpc, held,
                   waitOn,
                   cpc, c_args, regTodo, dispVars, mpc, clientVars, spc,
                   stdinVars, mainVars>>

\* readline() returns a line: _process_line dispatches all_raw_messages
\* (lines 265-267) and the task is inside that handler
ReadLine(t, L) ==
    /\ hpc[t] = "read" /\ ~hcancel[t]
    /\ nread < MaxLines
    /\ \E line \in L :
          /\ cur' = [cur EXCEPT ![t] = line]
          /\ Dispatch(Event("all_raw_messages", real_server_name, None,
                            <<line>>), t)
    /\ nread' = nread + 1
    /\ hpc' = [hpc EXCEPT ![t] = "handling_raw"]
    /\ UNCHANGED <<modVars, pyver, faulty, sendVars, plugVars, connVars, sockVars, handler, handlers, nameVars,
                   transVars, hcancel, pend, loopLog, dpc, held, waitOn, cpc,
                   c_args, regTodo, mpc, clientVars, spc, stdinVars, mainVars>>

\* Proceed without the try/except of lines 248 and 260 around _process_line:
\* the exception ends the task
Proceed_raise(t) ==
    IF hpc[t] = "handling_raw"
    THEN LET p == ParseLine(cur[t], real_server_name, real_nickname)
         IN /\ real_server_name' = p.rsn
            /\ real_nickname' = p.rnick
            /\ IF p.raised \/ p.events = <<>>
               THEN /\ hpc' = [hpc EXCEPT ![t] = "raised"]
                    /\ cur' = [cur EXCEPT ![t] = NoLine]
                    /\ UNCHANGED <<pend, dispVars>>
               ELSE /\ Dispatch(Head(p.events), t)
                    /\ pend' = [pend EXCEPT ![t] = Tail(p.events)]
                    /\ hpc' = [hpc EXCEPT ![t] = "handling"]
                    /\ UNCHANGED cur
    ELSE /\ UNCHANGED nameVars
         /\ IF pend[t] # <<>>
            THEN /\ Dispatch(Head(pend[t]), t)
                 /\ pend' = [pend EXCEPT ![t] = Tail(pend[t])]
                 /\ UNCHANGED <<hpc, cur>>
            ELSE /\ hpc' = [hpc EXCEPT ![t] = "read"]
                 /\ cur' = [cur EXCEPT ![t] = NoLine]
                 /\ UNCHANGED <<pend, dispVars>>

\* the handler the task was in has returned (or its exception was swallowed
\* by _handle_event): _process_line goes on, lines 269-294, or the next
\* event of the line is dispatched, or the loop goes back to readline()
Proceed(t) ==
    IF hpc[t] = "handling_raw"
    THEN LET p == ParseLine(cur[t], real_server_name, real_nickname)
         IN /\ real_server_name' = p.rsn
            /\ real_nickname' = p.rnick
            /\ IF p.raised \/ p.events = <<>>
               THEN \* logged by the except of line 260, the loop continues
                    /\ hpc' = [hpc EXCEPT ![t] = "read"]
                    /\ cur' = [cur EXCEPT ![t] = NoLine]
                    /\ UNCHANGED <<pend, dispVars>>
               ELSE /\ Dispatch(Head(p.events), t)
                    /\ pend' = [pend EXCEPT ![t] = Tail(p.events)]
                    /\ hpc' = [hpc EXCEPT ![t] = "handling"]
                    /\ UNCHANGED cur
    ELSE /\ UNCHANGED nameVars
         /\ IF pend[t] # <<>>
            THEN /\ Dispatch(Head(pend[t]), t)
                 /\ pend' = [pend EXCEPT ![t] = Tail(pend[t])]
                 /\ UNCHANGED <<hpc, cur>>
            ELSE /\ hpc' = [hpc EXCEPT ![t] = "read"]
                 /\ cur' = [cur EXCEPT ![t] = NoLine]
                 /\ UNCHANGED <<pend, dispVars>>

HandlerReturns(t) ==
    /\ hpc[t] \in {"handling_raw", "handling"} /\ ~hcancel[t]
    /\ Proceed(t)
    /\ UNCHANGED <<modVars, pyver, faulty, sendVars, plugVars, connVars, sockVars, handler, handlers, transVars,
                   hcancel, nread, loopLog, dpc, held, waitOn, cpc, c_args,
                   regTodo, mpc, clientVars, spc, stdinVars, mainVars>>

\* the pending cancel() reaches the task at its suspension point.  Where
\* CancelledError is an Exception, the except of line 237 takes it for a read
\* failure and the except of line 359 swallows it inside a handler;
\* otherwise the task ends cancelled.
CancelDelivered(t) ==
    /\ hcancel[t]
    /\ hpc[t] \in {"read", "handling_raw", "handling"}
    /\ hcancel' = [hcancel EXCEPT ![t] = FALSE]
    /\ IF ~CancelledErrorIsException
       THEN /\ hpc' = [hpc EXCEPT ![t] = "cancelled"]
            /\ UNCHANGED <<connVars, _writer, eofWritten, wrote, cur, pend,
                           loopLog, nameVars, dispVars>>
       ELSE IF hpc[t] = "read"
       THEN LoopEnds(t, TRUE) /\ UNCHANGED <<nameVars, dispVars>>
       ELSE /\ Proceed(t)
            /\ UNCHANGED <<connVars, _writer, eofWritten, wrote, loopLog>>
    /\ UNCHANGED <<modVars, pyver, faulty, sendVars, plugVars, _reader, _handler_coroutine, nsock, handler,
                   handlers, aborted, nread, dpc, held, waitOn, cpc, c_args,
                   regTodo, mpc, clientVars, spc, stdinVars, mainVars>>

\* ----------------------------------------------------------------- connect
\* Registration with NICK and USER sent before CAP and PASS
Registration_nickfirst(a) ==
    <<"NICK", "USER">>
        \o (IF a.caps THEN <<"CAP">> ELSE <<>>)
        \o (IF a.password THEN <<"PASS">> ELSE <<>>)

\* the registration commands of connect(), lines 196-201
Registration(a) ==
    (IF a.caps THEN <<"CAP">> ELSE <<>>)
        \o (IF a.password THEN <<"PASS">> ELSE <<>>)
        \o <<"NICK", "USER">>

\* connect() is called (lines 165-186): on a connected connection QUIT is
\* sent and drained first; otherwise the socket is opened
ConnectCall(caps, password) ==
    /\ mpc = "none"
    /\ cpc \in {"idle", "returned", "raised"}
    /\ c_args' = [caps |-> caps, password |-> password]
    /\ IF connected_event
       THEN IF send_raw_check(connected_event, _writer) = "ok"
            THEN /\ wrote' = Written(_writer, "QUIT")
                 /\ cpc' = "quit_drain"
                 /\ UNCHANGED <<handlers, nameVars, mpc>>
            ELSE /\ ConnectReturn("raised")
                 /\ UNCHANGED <<handlers, nameVars, wrote>>
       ELSE /\ handlers' = <<>>
            /\ real_server_name' = ""
            /\ real_nickname' = "me"
            /\ cpc' = "opening"
            /\ UNCHANGED <<wrote, mpc>>
    /\ UNCHANGED <<modVars, pyver, faulty, sendVars, plugVars, connVars, sockVars, handler, eofWritten, aborted,
                   loopVars, dpc, held, waitOn, regTodo, dispVars,
                   clientVars, spc, stdinVars, mainVars>>

\* line 172: the QUIT is drained, connect() calls disconnect()
ConnectQuitDrained ==
    /\ cpc = "quit_drain"
    /\ IF disconnect_entry(connected_event, _writer) # "teardown"
       THEN /\ DisconnectReturn("connect", "returned")
            /\ UNCHANGED <<held, _writer, eofWritten>>
       ELSE /\ TakeWriter("connect")
            /\ cpc' = "disconnecting"
            /\ UNCHANGED <<mpc, spc, handlers, nameVars>>
    /\ UNCHANGED <<modVars, pyver, faulty, sendVars, plugVars, connVars, _reader, _handler_coroutine, nsock,
                   handler, aborted, wrote, loopVars, waitOn, c_args,
                   regTodo, dispVars, clientVars, stdinVars, mainVars>>

\* a callback the event loop has already scheduled for the read-loop task
\* t: the delivery of a requested cancel, or the end of file that abort()
\* feeds to a task waiting in readline().  open_connection needs later
\* iterations of the loop to return.
CallbackScheduled(t) ==
    \/ hcancel[t] /\ hpc[t] \in {"read", "handling_raw", "handling"}
    \/ hpc[t] = "read" /\ aborted[t]

\* lines 185-197: open_connection returned; the read-loop task is created,
\* the events are flipped and the first registration command is sent
ConnectOpened ==
    /\ cpc = "opening"
    /\ nsock < MaxConnects
    /\ \A t \in Socks : ~CallbackScheduled(t)
    /\ LET s == nsock + 1
           todo == Registration(c_args)
       IN /\ nsock' = s
          /\ _reader' = s /\ _writer' = s
          /\ _handler_coroutine' = s
          /\ hpc' = [hpc EXCEPT ![s] = "read"]
          /\ disconnected_event' = FALSE
          /\ connected_event' = TRUE
          /\ wrote' = Written(s, Head(todo))
          /\ regTodo' = Tail(todo)
          /\ cpc' = "reg"
    /\ UNCHANGED <<modVars, pyver, faulty, sendVars, plugVars, handler, handlers, nameVars, eofWritten, aborted,
                   hcancel, cur, pend, nread, loopLog, dpc, held, waitOn,
                   c_args, dispVars, mpc, clientVars, spc, stdinVars,
                   mainVars>>

\* lines 187-188: open_connection raised
ConnectOpenFailed ==
    /\ cpc = "opening"
    /\ ConnectReturn("raised")
    /\ UNCHANGED <<modVars, pyver, faulty, sendVars, plugVars, connVars, sockVars, handler, handlers, nameVars,
                   transVars, loopVars, dpc, held, waitOn, c_args, regTodo,
                   dispVars, clientVars, spc, stdinVars, mainVars>>

\* lines 197-202: a registration command is drained; the next one is sent
\* through send_raw, or connect() returns
ConnectRegNext ==
    /\ cpc = "reg"
    /\ IF regTodo = <<>>
       THEN ConnectReturn("returned") /\ UNCHANGED <<wrote, regTodo>>
       ELSE IF send_raw_check(connected_event, _writer) = "ok"
       THEN /\ wrote' = Written(_writer, Head(regTodo))
            /\ regTodo' = Tail(regTodo)
            /\ UNCHANGED <<cpc, mpc>>
       ELSE ConnectReturn("raised") /\ UNCHANGED <<wrote, regTodo>>
    /\ UNCHANGED <<modVars, pyver, faulty, sendVars, plugVars, connVars, sockVars, handler, handlers, nameVars,
                   eofWritten, aborted, loopVars, dpc, held, waitOn, c_args,
                   dispVars, clientVars, spc, stdinVars, mainVars>>

\* a user of the connection fills self.handlers[type] once connect() has
\* returned (scripts/irccat.py:146-147)
SetHandlers(type, fns) ==
    /\ mpc = "none"
    /\ cpc = "returned"
    /\ type \notin DOMAIN handlers
    /\ handlers' = [ty \in DOMAIN handlers \cup {type} |->
                       IF ty = type THEN fns ELSE handlers[ty]]
    /\ UNCHANGED <<modVars, pyver, faulty, sendVars, plugVars, connVars, sockVars, handler, nameVars, transVars,
                   loopVars, dpc, held, waitOn, cpc, c_args, regTodo,
                   dispVars, mpc, clientVars, spc, stdinVars, mainVars>>

\* ------------------------------------------- the connection used on its own
\* the steps of the connection's own tasks, for the wire lines L and the
\* disconnect() callers C
Core(L, C) ==
    \/ \E c \in C : DisconnectDrained(c)
    \/ \E c \in C : DisconnectWaitDone(c)
    \/ \E c \in C : DisconnectTimeout(c)
    \/ \E c \in C : DisconnectAfterCancel(c)
    \/ \E t \in Socks : ReadEOF(t)
    \/ \E t \in Socks : ReadError(t)
    \/ \E t \in Socks : ReadBlank(t)
    \/ \E t \in Socks : ReadLine(t, L)
    \/ \E t \in Socks : HandlerReturns(t)
    \/ \E t \in Socks : CancelDelivered(t)
    \/ ConnectOpened
    \/ ConnectOpenFailed
    \/ ConnectRegNext

Init ==
    /\ pyver \in PyVersions
    /\ faulty = {}
    /\ handler = "primary"
    /\ ConnInit
    /\ ModulesInit
    /\ NoSession

\* the life of a connection object: connect(), the read loop (on lines it
\* drops after the all_raw_messages dispatch), connect() again on the same
\* object, with its quit and disconnect when connected
Next ==
    \/ Core({L_pubmsg}, {"connect"})
    \/ ConnectCall(FALSE, FALSE)
    \/ ConnectQuitDrained

Spec == Init /\ [][Next]_vars

\* reconnect(), lines 204-208: a plain function that calls the coroutine
\* function connect() with the saved arguments and drops the coroutine
\* object it gets back: no line of connect() runs
reconnect ==
    /\ mpc = "none"
    /\ cpc \in {"returned", "raised"}
    /\ nreconnect < MaxConnects
    /\ nreconnect' = nreconnect + 1
    /\ UNCHANGED <<timerVars, dumbVars, routeVars, shVars, editVars, wrapVars,
                   failVars, defVars, pyver, faulty, sendVars, plugVars, connVars, sockVars, transVars,
                   nameVars, handler, handlers, loopVars, cpc, dpc, held,
                   waitOn, c_args, regTodo, dispVars, clientVars, mpc, spc,
                   stdinVars, mainVars>>

\* the life of a connection object with calls of reconnect()
NextRecall ==
    \/ Next
    \/ reconnect

SpecRecall == Init /\ [][NextRecall]_vars

\* connect() is called once on the connection object
ConnectOnce(caps, password) == cpc = "idle" /\ ConnectCall(caps, password)

\* one connection and two tasks that call disconnect() on it
NextOverlap ==
    \/ Core({L_pubmsg}, {"stdin", "ping"})
    \/ \E c \in {"stdin", "ping"} : ExtDisconnect(c)
    \/ ConnectOnce(FALSE, FALSE)

SpecOverlap == Init /\ [][NextOverlap]_vars

\* the read loop on every kind of line, one task calling disconnect()
NextLines ==
    \/ Core(Lines, {"ping"})
    \/ ExtDisconnect("ping")
    \/ ConnectOnce(FALSE, FALSE)

SpecLines == Init /\ [][NextLines]_vars

\* users of the connection that send and a task that disconnects
NextSend ==
    \/ Core({L_nomatch}, {"ping"})
    \/ ExtDisconnect("ping")
    \/ ConnectOnce(FALSE, FALSE)
    \/ \E string \in SendStrings : Send(string)

SpecSend == Init /\ [][NextSend]_vars

\* the read loop on privmsg and notice lines, up to the end of file
NextCodec ==
    \/ ConnectOnce(FALSE, FALSE)
    \/ ConnectOpened
    \/ ConnectRegNext
    \/ \E t \in Socks : ReadLine(t, MessageLines)
    \/ \E t \in Socks : HandlerReturns(t)
    \/ \E t \in Socks : ReadEOF(t)

SpecCodec == Init /\ [][NextCodec]_vars

\* connect() with or without capabilities and password
NextRegister ==
    \/ Core({L_welcome}, {"ping"})
    \/ ExtDisconnect("ping")
    \/ \E caps, password \in BOOLEAN : ConnectOnce(caps, password)

SpecRegister == Init /\ [][NextRegister]_vars

\* the dispatch bus: with or without a primary handler, with functions
\* registered under the event types
InitDispatch ==
    /\ pyver \in PyVersions
    /\ faulty = Raisers
    /\ handler \in {None, "primary"}
    /\ ConnInit
    /\ ModulesInit
    /\ NoSession

NextDispatch ==
    \/ Core({L_pubmsg}, {"ping"})
    \/ ExtDisconnect("ping")
    \/ ConnectOnce(FALSE, FALSE)
    \/ \E type \in EventTypes, fns \in {<<"f1">>, <<"f1", "f2">>} :
          SetHandlers(type, fns)

SpecDispatch == InitDispatch /\ [][NextDispatch]_vars


\* ------------------------------------------------- the terminal input task
\* from `self.intentional_disconnect = True` up to the next suspension of
\* the task: quit() (ServerNotConnectedError is caught), then disconnect().
\* ctx = "cmd": command_quit (__main__.py:203-210); ctx = "eof": the end of
\* handle_stdin (__main__.py:106-111)
StdinDisconnect(ctx) ==
    IF disconnect_entry(connected_event, _writer) = "teardown"
    THEN /\ TakeWriter("stdin")
         /\ spc' = IF ctx = "eof" THEN "eof_disconnect" ELSE "cmd_disconnect"
    ELSE \* disconnect() returns at once; in command_quit the assert follows,
         \* under the try/except Exception of input_command
         /\ spc' = IF ctx = "eof" THEN "done" ELSE "get"
         /\ UNCHANGED <<held, _writer, eofWritten, dpc>>

StdinQuit(ctx) ==
    /\ intentional_disconnect' = TRUE
    /\ IF send_raw_check(connected_event, _writer) = "ok"
       THEN /\ wrote' = Written(_writer, "QUIT")
            /\ spc' = IF ctx = "eof" THEN "eof_quit_drain" ELSE "quit_drain"
            /\ UNCHANGED <<held, _writer, eofWritten, dpc>>
       ELSE /\ StdinDisconnect(ctx)
            /\ UNCHANGED wrote

\* the terminal items: a /quit line, a chat line, end of input (CTRL-D)
Items == {"quit", "say", "eof"}

\* on_readable (stdio.py:148-176): the terminal delivers a line or the end
\* of input while the reader is registered
on_readable(item) ==
    /\ readlines = "open"
    /\ ninput < MaxInput
    /\ ninput' = ninput + 1
    /\ queue' = Append(queue, item)
    /\ typed' = Append(typed, item)
    /\ UNCHANGED <<modVars, pyver, faulty, sendVars, plugVars, connVars, sockVars, handler, handlers, nameVars,
                   transVars, loopVars, dpc, held, waitOn, cpc, c_args,
                   regTodo, dispVars, mpc, clientVars, spc, scancel,
                   quit_issued, mainVars>>

\* the first step of the handle_stdin task (__main__.py:90-91): the reader
\* is created and registered, the task waits for the queue
handle_stdin_Start ==
    /\ spc = "created" /\ ~scancel
    /\ readlines' = "open"
    /\ spc' = "get"
    /\ UNCHANGED <<modVars, pyver, faulty, sendVars, plugVars, connVars, sockVars, handler, handlers, nameVars,
                   transVars, loopVars, dpc, held, waitOn, cpc, c_args,
                   regTodo, dispVars, mpc, intentional_disconnect,
                   subhandlers, stdinVars, mainVars>>

\* the task was cancelled before its first step: the coroutine never runs
handle_stdin_NeverStarted ==
    /\ spc = "created" /\ scancel
    /\ spc' = "cancelled"
    /\ scancel' = FALSE
    /\ UNCHANGED <<modVars, pyver, faulty, sendVars, plugVars, connVars, sockVars, handler, handlers, nameVars,
                   transVars, loopVars, dpc, held, waitOn, cpc, c_args,
                   regTodo, dispVars, mpc, clientVars, queue, ninput, typed,
                   quit_issued, mainVars>>

\* a queue handing out its newest item
queue_get_last(q) ==
    [item |-> q[Len(q)], rest |-> SubSeq(q, 1, Len(q) - 1)]

\* asyncio.Queue.get() on the reader's queue (stdio.py:180): the oldest
\* item and the queue afterwards
queue_get(q) == [item |-> Head(q), rest |-> Tail(q)]

\* queue.get() returns an item (__main__.py:91-105, stdio.py:178-188)
handle_stdin_Next ==
    /\ spc = "get" /\ ~scancel
    /\ queue # <<>>
    /\ queue' = queue_get(queue).rest
    /\ quit_issued' = (quit_issued \/ queue_get(queue).item = "quit")
    /\ CASE queue_get(queue).item = "quit" ->
              /\ StdinQuit("cmd")
              /\ UNCHANGED readlines
         [] queue_get(queue).item = "eof" ->
              /\ StdinQuit("eof")
              /\ readlines' = "closed"
         [] OTHER ->
              \* command_say (say.py:34-52): privmsg through send_raw; an
              \* exception is printed by input_command
              /\ IF send_raw_check(connected_event, _writer) = "ok"
                 THEN /\ wrote' = Written(_writer, "PRIVMSG")
                      /\ spc' = "say_drain"
                 ELSE UNCHANGED <<wrote, spc>>
              /\ UNCHANGED <<readlines, intentional_disconnect, held,
                             _writer, eofWritten, dpc>>
    /\ UNCHANGED <<modVars, pyver, faulty, sendVars, plugVars, connVars, _reader, _handler_coroutine, nsock,
                   handler, handlers, nameVars, aborted, loopVars, waitOn,
                   cpc, c_args, regTodo, dispVars, mpc, subhandlers, scancel,
                   ninput, typed, mainVars>>

\* the drain of a command written by the task is over
handle_stdin_Drained ==
    /\ spc \in {"quit_drain", "eof_quit_drain", "say_drain"} /\ ~scancel
    /\ IF spc = "say_drain"
       THEN /\ spc' = "get"
            /\ UNCHANGED <<held, _writer, eofWritten, dpc>>
       ELSE StdinDisconnect(IF spc = "eof_quit_drain" THEN "eof" ELSE "cmd")
    /\ UNCHANGED <<modVars, pyver, faulty, sendVars, plugVars, connVars, _reader, _handler_coroutine, nsock,
                   handler, handlers, nameVars, aborted, wrote, loopVars,
                   waitOn, cpc, c_args, regTodo, dispVars, mpc, clientVars,
                   stdinVars, mainVars>>

\* the cancel() of main_async (__main__.py:281) reaches the task where it is
\* suspended.  At queue.get() the reader takes it for the end of input
\* (stdio.py:181-182).  Inside a command it is an exception of the command,
\* which input_command prints where CancelledError is an Exception
\* (__main__.py:242).  Inside wait_for it cancels the read-loop task too.
handle_stdin_Cancelled ==
    /\ scancel
    /\ spc \in {"get", "quit_drain", "eof_quit_drain", "say_drain",
                "cmd_disconnect", "eof_disconnect"}
    /\ scancel' = FALSE
    /\ IF spc = "get"
       THEN /\ StdinQuit("eof")
            /\ readlines' = "closed"
            /\ UNCHANGED hcancel
       ELSE /\ StdinAfter(IF spc \in {"eof_quit_drain", "eof_disconnect"}
                          THEN "eof" ELSE "cmd", "raised")
            /\ dpc' = [dpc EXCEPT !["stdin"] = "idle"]
            /\ hcancel' = IF /\ spc \in {"cmd_disconnect", "eof_disconnect"}
                             /\ dpc["stdin"] = "wait"
                             /\ hpc[waitOn["stdin"]] \notin {"done", "cancelled"}
                          THEN [hcancel EXCEPT ![waitOn["stdin"]] = TRUE]
                          ELSE hcancel
            /\ UNCHANGED <<intentional_disconnect, readlines, wrote, held,
                           _writer, eofWritten>>
    /\ UNCHANGED <<modVars, pyver, faulty, sendVars, plugVars, connVars, _reader, _handler_coroutine, nsock,
                   handler, handlers, nameVars, aborted, hpc, cur, pend,
                   nread, loopLog, waitOn, cpc, c_args, regTodo, dispVars,
                   mpc, subhandlers, queue, ninput, typed, quit_issued,
                   mainVars>>

\* ------------------------------------------------------- the session loop
\* NextDelay adding the base instead of doubling
NextDelay_add(d) == d + 2

\* `delay = 2 * delay or 2` (__main__.py:291)
NextDelay(d) == IF 2 * d = 0 THEN 2 ELSE 2 * d

\* main_async, lines 269-270, and Client.connect up to the await of
\* open_connection: a new Client with a new ServerConnection, the plugins
\* of config.PLUGINS loaded in order, connect() called with caps and password
main_async_NewClient ==
    /\ mpc = "start"
    /\ nsession < MaxSessions
    /\ nsession' = nsession + 1
    /\ connected_event' = FALSE /\ disconnected_event' = FALSE
    /\ _reader' = NoSock /\ _writer' = NoSock /\ _handler_coroutine' = NoSock
    /\ nsock' = 0
    /\ eofWritten' = [s \in Socks |-> 0]
    /\ aborted' = [s \in Socks |-> FALSE]
    /\ wrote' = [s \in Socks |-> <<>>]
    /\ hpc' = [s \in Socks |-> "none"]
    /\ hcancel' = [s \in Socks |-> FALSE]
    /\ cur' = [s \in Socks |-> NoLine]
    /\ pend' = [s \in Socks |-> <<>>]
    /\ nread' = 0
    /\ loopLog' = [s \in Socks |-> ""]
    /\ dpc' = [c \in Callers |-> "idle"]
    /\ held' = [c \in Callers |-> NoSock]
    /\ waitOn' = [c \in Callers |-> NoSock]
    /\ regTodo' = <<>>
    /\ eventLog' = <<>>
    /\ lastCalls' = [type |-> None, registered |-> <<>>, invoked |-> <<>>]
    /\ lastFanout' = [type |-> None, registry |-> <<>>, invoked |-> <<>>]
    /\ welcomed' = FALSE
    /\ intentional_disconnect' = FALSE
    /\ subhandlers' = PLUGINS
    /\ instOf' = LoadedFrom(ninst)
    /\ pingTask' = pingTask \cup {LoadedFrom(ninst)["ping"]}
    /\ imported' = imported \cup {PLUGINS[i] : i \in DOMAIN PLUGINS}
    /\ instBase' = ninst
    /\ ninst' = ninst + 3
    /\ unloading' = 0
    /\ lastHooks' = <<>>
    /\ lastLoad' = NoLoad
    /\ readlines' = "unset"
    /\ spc' = "none"
    /\ scancel' = FALSE
    /\ queue' = <<>>
    /\ typed' = <<>>
    /\ c_args' = [caps |-> TRUE, password |-> TRUE]
    /\ handlers' = <<>>
    /\ real_server_name' = ""
    /\ real_nickname' = "me"
    /\ cpc' = "opening"
    /\ mpc' = "connecting"
    /\ short' = FALSE
    /\ UNCHANGED <<modVars, pyver, faulty, sendVars, nload, counter, ipc, handler, ninput,
                   quit_issued, delay, sessionLog>>

\* Client.connect, lines 85-87: the welcome has arrived, the channel is
\* joined; an exception of join() ends main_async
Client_connect_Welcomed ==
    /\ mpc = "wait_welcome"
    /\ welcomed
    /\ IF send_raw_check(connected_event, _writer) = "ok"
       THEN /\ wrote' = Written(_writer, "JOIN")
            /\ mpc' = "joining"
       ELSE /\ mpc' = "crashed"
            /\ UNCHANGED wrote
    /\ UNCHANGED <<modVars, pyver, faulty, sendVars, plugVars, connVars, sockVars, handler, handlers, nameVars,
                   eofWritten, aborted, loopVars, dpc, held, waitOn, cpc,
                   c_args, regTodo, dispVars, clientVars, spc, stdinVars,
                   mainVars>>

\* main_async, lines 271-285, when Client.connect has returned: the terminal
\* task is created and main_async waits for the disconnect.  If the
\* connection is already disconnected the wait returns at once and the task
\* is cancelled before it runs (client.readlines does not exist yet).
main_async_TaskCreated ==
    /\ mpc = "joining"
    /\ spc' = "created"
    /\ IF disconnected_event
       THEN /\ short' = TRUE
            /\ scancel' = TRUE
            /\ mpc' = "await_task"
       ELSE /\ mpc' = "wait_disc"
            /\ UNCHANGED <<short, scancel>>
    /\ UNCHANGED <<modVars, pyver, faulty, sendVars, plugVars, connVars, sockVars, handler, handlers, nameVars,
                   transVars, loopVars, dpc, held, waitOn, cpc, c_args,
                   regTodo, dispVars, clientVars, queue, ninput, typed,
                   quit_issued, delay, nsession, sessionLog>>

\* client.readlines.close() skipped
readlines_close_skip(r) == r

\* client.readlines.close() in the finally block (__main__.py:277-280,
\* stdio.py:77-80): the ExitStack of an iterating reader is closed, which
\* removes the reader callback, restores the terminal attributes and unwraps
\* the writes of stdout and stderr; without the attribute (the task never
\* ran) the AttributeError is passed over
readlines_close(r) == IF r = "open" THEN "closed" ELSE r

\* main_async, lines 274-283: wait_disconnected() returns after t2 - t1
\* seconds; the reader is closed and the terminal task cancelled.  The
\* task made its first step when main_async suspended in the wait.
main_async_Disconnected ==
    /\ mpc = "wait_disc"
    /\ disconnected_event
    /\ spc # "created"
    /\ \E b \in BOOLEAN : short' = b
    /\ readlines' = readlines_close(readlines)
    /\ scancel' = (spc \notin {"done", "cancelled"})
    /\ mpc' = "await_task"
    /\ UNCHANGED <<modVars, pyver, faulty, sendVars, plugVars, connVars, sockVars, handler, handlers, nameVars,
                   transVars, loopVars, dpc, held, waitOn, cpc, c_args,
                   regTodo, dispVars, intentional_disconnect, subhandlers,
                   spc, queue, ninput, typed, quit_issued, delay, nsession,
                   sessionLog>>

\* main_async, lines 283-296: the terminal task has ended
main_async_TaskAwaited ==
    /\ mpc = "await_task"
    /\ spc \in {"done", "cancelled"}
    /\ IF intentional_disconnect
       THEN /\ mpc' = "stopped"
            /\ UNCHANGED <<delay, sessionLog>>
       ELSE IF short
       THEN /\ delay' = NextDelay(delay)
            /\ sessionLog' = Append(sessionLog, "short")
            /\ mpc' = "sleep"
       ELSE /\ delay' = 0
            /\ sessionLog' = Append(sessionLog, "long")
            /\ mpc' = "start"
    /\ UNCHANGED <<modVars, pyver, faulty, sendVars, plugVars, connVars, sockVars, handler, handlers, nameVars,
                   transVars, loopVars, dpc, held, waitOn, cpc, c_args,
                   regTodo, dispVars, clientVars, spc, stdinVars, short,
                   nsession>>

\* main_async, line 293: asyncio.sleep(delay) is over
main_async_Slept ==
    /\ mpc = "sleep"
    /\ mpc' = "start"
    /\ UNCHANGED <<modVars, pyver, faulty, sendVars, plugVars, connVars, sockVars, handler, handlers, nameVars,
                   transVars, loopVars, dpc, held, waitOn, cpc, c_args,
                   regTodo, dispVars, clientVars, spc, stdinVars, mainVars>>

\* the wire lines of the session model
SessionLines == {L_welcome, L_pubmsg}

\* the steps of the session: the connection's tasks, the terminal task and
\* main_async
ProgramStep ==
    \/ Core(SessionLines, {"stdin"})
    \/ handle_stdin_Start
    \/ handle_stdin_NeverStarted
    \/ handle_stdin_Next
    \/ handle_stdin_Drained
    \/ handle_stdin_Cancelled
    \/ main_async_NewClient
    \/ Client_connect_Welcomed
    \/ main_async_TaskCreated
    \/ main_async_Disconnected
    \/ main_async_TaskAwaited
    \/ main_async_Slept

InitSession ==
    /\ pyver \in PyVersions
    /\ faulty = {}
    /\ handler = "event_handler"
    /\ ConnInit
    /\ ModulesInit
    /\ SessionInit

NextSession ==
    \/ ProgramStep
    \/ \E item \in Items : on_readable(item)

SpecSession == InitSession /\ [][NextSession]_vars

\* ------------------------------------------------- leaving a session
\* main(), lines 310-311: a KeyboardInterrupt cancels main_async where it
\* waits for the disconnect; the finally block of lines 276-285 runs with
\* the CancelledError pending
main_async_Interrupted ==
    /\ mpc = "wait_disc"
    /\ spc # "created"
    /\ readlines' = readlines_close(readlines)
    /\ scancel' = (spc \notin {"done", "cancelled"})
    /\ mpc' = "await_task_exc"
    /\ UNCHANGED <<modVars, pyver, faulty, sendVars, plugVars, connVars,
                   sockVars, handler, handlers, nameVars, transVars,
                   loopVars, dpc, held, waitOn, cpc, c_args, regTodo,
                   dispVars, intentional_disconnect, subhandlers, spc, queue,
                   ninput, typed, quit_issued, mainVars>>

\* the terminal task has ended, the finally block is left and the
\* CancelledError of main_async goes on to main()
main_async_Reraised ==
    /\ mpc = "await_task_exc"
    /\ spc \in {"done", "cancelled"}
    /\ mpc' = "interrupted"
    /\ UNCHANGED <<modVars, pyver, faulty, sendVars, plugVars, connVars,
                   sockVars, handler, handlers, nameVars, transVars,
                   loopVars, dpc, held, waitOn, cpc, c_args, regTodo,
                   dispVars, clientVars, spc, stdinVars, mainVars>>

\* the session loop, the operator's command lines and CTRL-C; the end of
\* input is what the reader makes of the cancellation (stdio.py:181-182)
NextSupervise ==
    \/ ProgramStep
    \/ \E item \in {"say", "quit"} : on_readable(item)
    \/ main_async_Interrupted
    \/ main_async_Reraised

SpecSupervise == InitSession /\ [][NextSupervise]_vars

\* the Client with its plugins loaded (__main__.py:71-73) and its connection,
\* without the terminal and the session loop; the plugins' handlers can raise
InitFanout ==
    /\ pyver \in PyVersions
    /\ faulty = {"ping", "log", "say"}
    /\ handler = "event_handler"
    /\ ConnInit
    /\ ModulesInit
    /\ welcomed = FALSE
    /\ intentional_disconnect = FALSE
    /\ subhandlers = PLUGINS
    /\ PluginsLoaded
    /\ readlines = "unset"
    /\ spc = "none"
    /\ scancel = FALSE
    /\ queue = <<>>
    /\ ninput = 0
    /\ typed = <<>>
    /\ quit_issued = FALSE
    /\ delay = 0
    /\ short = FALSE
    /\ nsession = 0
    /\ sessionLog = <<>>
    /\ mpc = "none"

NextFanout ==
    \/ Core(SessionLines, {"ping"})
    \/ ExtDisconnect("ping")
    \/ ConnectOnce(TRUE, TRUE)

SpecFanout == InitFanout /\ [][NextFanout]_vars

\* ------------------------------------------------------- the plugin host
\* a call of a plugin hook: load(client), reload(prev), unload(client)
Hook(h, i, arg) == [hook |-> h, inst |-> i, arg |-> arg]

\* the failures the module on disk can produce for /load m: import_module
\* fails for a module that is not in sys.modules, importlib.reload for one
\* that is; the others need the module
CanFail(m, fail) ==
    CASE fail = "import" -> m \notin imported
      [] fail = "reload_module" -> m \in imported
      [] OTHER -> ModuleExists(m)

\* Client.load_subhandler: how the call ends. The three try blocks turn
\* their failure into HandlerImportError; importlib.reload(mod) and
\* await on_load(self) stand outside of them
load_subhandler(fail) ==
    CASE fail \in {"import", "no_class", "init"} -> "HandlerImportError"
      [] fail \in {"reload_module", "load_hook"} -> "Exception"
      [] OTHER -> "ok"

\* Handler.load of ping: self._counter = 0
load(ctr, new) == [ctr EXCEPT ![new] = 0]

\* a reload hook that copies nothing
reload_nocopy(m, ctr, new, prev) == ctr

\* Handler.reload of ping: self._counter = old_self._counter (None has no
\* _counter: the hook raises before it copies); the hooks of log and say
\* copy state that is not a counter
reload(m, ctr, new, prev) ==
    IF m = "ping" /\ prev # 0 THEN [ctr EXCEPT ![new] = ctr[prev]]
    ELSE ctr

\* Client.command_load for one name: load_subhandler, the assignment to
\* self.subhandlers[m], the reload hook
command_load(m, fail) ==
    /\ mpc = "none"
    /\ unloading = 0
    /\ nload < MaxLoads
    /\ CanFail(m, fail)
    /\ nload' = nload + 1
    /\ LET prev == instOf[m]
           new == ninst + 1
           res == load_subhandler(fail)
           \* handler_class() returned an instance
           made == fail \in {"none", "load_hook"}
           \* ping's reload(None) raises AttributeError
           raises == res = "ok" /\ m = "ping" /\ prev = 0
       IN  /\ imported' = IF fail = "import" THEN imported
                          ELSE imported \cup {m}
           /\ ninst' = IF made THEN new ELSE ninst
           /\ instOf' = IF res = "ok" THEN [instOf EXCEPT ![m] = new]
                        ELSE instOf
           /\ subhandlers' =
                  IF res = "ok" /\ ~\E i \in DOMAIN subhandlers :
                                       subhandlers[i] = m
                  THEN Append(subhandlers, m)
                  ELSE subhandlers
           /\ counter' = IF res = "ok"
                         THEN reload(m, load(counter, new), new, prev)
                         ELSE counter
           /\ pingTask' = IF res = "ok" /\ m = "ping"
                          THEN pingTask \cup {new}
                          ELSE pingTask
           /\ lastHooks' =
                  (IF made THEN <<Hook("load", new, 0)>> ELSE <<>>)
                  \o (IF res = "ok" /\ HasReload(m)
                      THEN <<Hook("reload", new, prev)>> ELSE <<>>)
           /\ lastLoad' = [name |-> m, phase |-> fail,
                           outcome |-> IF raises THEN "Exception" ELSE res]
    /\ UNCHANGED <<modVars, pyver, faulty, sendVars, connVars, sockVars, handler,
                   handlers, nameVars, eofWritten, aborted, loopVars, dpc,
                   held, waitOn, cpc, c_args, regTodo, dispVars, mpc,
                   intentional_disconnect, readlines, spc, stdinVars,
                   mainVars, wrote, unloading, instBase>>

\* Client.command_unload for one name, up to the first suspension: pop,
\* then the unload hook. log's hook closes its files; ping's cancels its
\* _idle_ping_task and awaits it, which suspends when the task still runs
command_unload(m) ==
    /\ mpc = "none"
    /\ unloading = 0
    /\ nload < MaxLoads
    /\ nload' = nload + 1
    /\ LET r == instOf[m]
       IN  /\ instOf' = [instOf EXCEPT ![m] = 0]
           /\ subhandlers' = SelectSeq(subhandlers, LAMBDA k : k # m)
           /\ pingTask' = IF m = "ping" THEN pingTask \ {r} ELSE pingTask
           /\ unloading' = IF m = "ping" /\ r \in pingTask THEN r ELSE 0
           /\ lastHooks' = IF r # 0 /\ HasUnload(m)
                           THEN <<Hook("unload", r, 0)>> ELSE <<>>
    /\ UNCHANGED <<modVars, pyver, faulty, sendVars, connVars, sockVars, handler,
                   handlers, nameVars, eofWritten, aborted, loopVars, dpc,
                   held, waitOn, cpc, c_args, regTodo, dispVars, mpc,
                   intentional_disconnect, readlines, spc, stdinVars,
                   mainVars, wrote, counter, imported, ninst, lastLoad,
                   instBase>>

\* the cancelled _idle_ping task has ended (its bare except took the
\* CancelledError): ping's unload hook, and with it command_unload, returns
command_unload_Awaited ==
    /\ unloading # 0
    /\ unloading' = 0
    /\ UNCHANGED <<modVars, pyver, faulty, sendVars, connVars, sockVars, handler,
                   handlers, nameVars, eofWritten, aborted, loopVars, dpc,
                   held, waitOn, cpc, c_args, regTodo, dispVars, mpc,
                   clientVars, spc, stdinVars, mainVars, wrote, instOf,
                   counter, pingTask, imported, ninst, nload, lastHooks,
                   lastLoad, instBase>>

\* Handler._idle_ping of instance i when the idle interval has passed
\* without an event (ping.py:39-48) and Handler._ping up to its wait for the
\* PONG (64-70): the counter, then connection.ping(c) on the connection of
\* the instance's Client; a send that raises ends the task (the bare except
\* of _idle_ping)
_ping(i) ==
    /\ i \in pingTask
    /\ ipc[i] = "idle"
    /\ counter[i] < MaxCount
    /\ counter' = [counter EXCEPT ![i] = @ + 1]
    /\ LET chk == IF i > instBase
                  THEN send_raw_check(connected_event, _writer)
                  ELSE "ServerNotConnectedError"
       IN  /\ wrote' = IF chk = "ok" THEN Written(_writer, "PING") ELSE wrote
           /\ pingTask' = IF chk = "ok" THEN pingTask ELSE pingTask \ {i}
           /\ ipc' = IF chk = "ok" THEN [ipc EXCEPT ![i] = "pong"] ELSE ipc
    /\ UNCHANGED <<modVars, pyver, faulty, sendVars, connVars, sockVars, handler,
                   handlers, nameVars, eofWritten, aborted, loopVars, dpc,
                   held, waitOn, cpc, c_args, regTodo, eventLog, lastCalls,
                   lastFanout, welcomed, mpc, clientVars, spc, stdinVars,
                   mainVars, instOf, imported, ninst, nload, unloading,
                   lastHooks, lastLoad, instBase>>

\* the wait_for around _ping times out (ping.py:49-52): the PONG of the
\* counter was not dispatched in time; the task sleeps
_idle_ping_Timeout(i) ==
    /\ i \in pingTask
    /\ ipc[i] = "pong"
    /\ ipc' = [ipc EXCEPT ![i] = "sleep"]
    /\ UNCHANGED <<modVars, pyver, faulty, sendVars, plugVars, connVars, sockVars,
                   handler, handlers, nameVars, transVars, loopVars, dpc,
                   held, waitOn, cpc, c_args, regTodo, eventLog, lastCalls,
                   lastFanout, welcomed, mpc, clientVars, spc, stdinVars,
                   mainVars>>

\* after the sleep (ping.py:53-58): quit("PING timeout"), where
\* ServerNotConnectedError is caught, then disconnect() up to its first
\* suspension; the task returns when disconnect() has returned
_idle_ping_Teardown(i) ==
    /\ i \in pingTask
    /\ ipc[i] = "sleep"
    /\ dpc["ping"] \in {"idle", "returned", "returned_early", "returned_busy",
                      "raised"}
    /\ pingTask' = pingTask \ {i}
    /\ ipc' = [ipc EXCEPT ![i] = "idle"]
    /\ IF i > instBase
       THEN /\ wrote' = IF send_raw_check(connected_event, _writer) = "ok"
                        THEN Written(_writer, "QUIT") ELSE wrote
            /\ IF disconnect_entry(connected_event, _writer) # "teardown"
               THEN /\ dpc' = [dpc EXCEPT !["ping"] =
                                   disconnect_entry(connected_event, _writer)]
                    /\ UNCHANGED <<held, _writer, eofWritten>>
               ELSE TakeWriter("ping")
       ELSE UNCHANGED <<wrote, dpc, held, _writer, eofWritten>>
    /\ UNCHANGED <<modVars, pyver, faulty, sendVars, connVars, _reader,
                   _handler_coroutine, nsock, handler, handlers, nameVars,
                   aborted, loopVars, waitOn, cpc, c_args, regTodo, eventLog,
                   lastCalls, lastFanout, welcomed, mpc, clientVars, spc,
                   stdinVars, mainVars, instOf, counter, imported, ninst,
                   nload, unloading, lastHooks, lastLoad, instBase>>

\* the Client with the plugins of PLUGINS loaded, its connection, and the
\* operator's /load and /unload commands
InitPlugins ==
    /\ pyver \in PyVersions
    /\ faulty = {}
    /\ handler = "event_handler"
    /\ ConnInit
    /\ ModulesInit
    /\ welcomed = FALSE
    /\ intentional_disconnect = FALSE
    /\ subhandlers = PLUGINS
    /\ PluginsLoaded
    /\ readlines = "unset"
    /\ spc = "none"
    /\ scancel = FALSE
    /\ queue = <<>>
    /\ ninput = 0
    /\ typed = <<>>
    /\ quit_issued = FALSE
    /\ delay = 0
    /\ short = FALSE
    /\ nsession = 0
    /\ sessionLog = <<>>
    /\ mpc = "none"

NextPlugins ==
    \/ ConnectOnce(FALSE, FALSE)
    \/ ConnectOpened
    \/ ConnectRegNext
    \/ \E m \in LoadNames, fail \in Phases : command_load(m, fail)
    \/ \E m \in LoadNames : command_unload(m)
    \/ command_unload_Awaited
    \/ \E i \in Insts : _ping(i)

SpecPlugins == InitPlugins /\ [][NextPlugins]_vars

\* the ping plugin on a connection: the server's PONG lines for the tokens,
\* the idle-ping task, its timeout and teardown
PongLines == {Line(TRUE, "srv", "PONG", <<"srv", str(k)>>) : k \in 1..MaxCount}

NextPing ==
    \/ Core(PongLines, {"ping"})
    \/ ConnectOnce(FALSE, FALSE)
    \/ \E i \in Insts : _ping(i)
    \/ \E i \in Insts : _idle_ping_Timeout(i)
    \/ \E i \in Insts : _idle_ping_Teardown(i)

SpecPing == InitPlugins /\ [][NextPing]_vars

\* the operator reloads the ping plugin once with `/load ping`
ReloadOnce == nload = 0 /\ command_load("ping", "none")

\* the ping plugin on a connection while the operator reloads it
NextReload ==
    \/ NextPing
    \/ ReloadOnce

SpecReload == InitPlugins /\ [][NextReload]_vars

\* the session loop with the idle-ping tasks of the plugins it loads; the
\* terminal only reaches its end of input
NextReconnect ==
    \/ ProgramStep
    \/ on_readable("eof")
    \/ \E i \in Insts : _ping(i)

SpecReconnect == InitSession /\ [][NextReconnect]_vars

\* ------------------------------------------------------- aiotwirc.timer
\* the other variables of the program
progVars == <<pyver, faulty, connVars, sockVars, handler, handlers, nameVars,
              transVars, loopVars, dpc, held, waitOn, cpc, c_args, regTodo,
              dispVars, mpc, clientVars, spc, stdinVars, mainVars, sendVars,
              plugVars>>

\* spamming() storing the time of every call
spamming_restart(prev, seconds, t) ==
    [ret |-> ~(prev = NoTime \/ prev + seconds < t), TIMES |-> t]

\* timer.spamming, lines 18-22, for the entry prev of the caller key and
\* the time t: the result and the entry afterwards. The key is the outermost
\* frame of the stack (inspect.stack(2)[-1]), one and the same for the calls
\* of one call site
spamming(prev, seconds, t) ==
    IF prev = NoTime \/ prev + seconds < t
    THEN [ret |-> FALSE, TIMES |-> t]
    ELSE [ret |-> TRUE, TIMES |-> prev]

\* the values of `seconds` a call site passes
Seconds == 0..2

\* a call site calls spamming(seconds), always with the same argument
\* (hostnotify.py:62)
call_spamming(seconds) ==
    /\ Len(spamLog) < MaxCalls
    /\ spamLog # <<>> => seconds = spamLog[1].seconds
    /\ LET r == spamming(TIMES, seconds, now)
       IN  /\ TIMES' = r.TIMES
           /\ spamLog' = Append(spamLog, [at |-> now, seconds |-> seconds,
                                          ret |-> r.ret])
    /\ UNCHANGED <<progVars, dumbVars, routeVars, shVars, extVars, now>>

\* time passes
time_passes ==
    /\ now < MaxTime
    /\ now' = now + 1
    /\ UNCHANGED <<progVars, dumbVars, routeVars, shVars, extVars, TIMES,
                   spamLog>>

NextTimer ==
    \/ \E seconds \in Seconds : call_spamming(seconds)
    \/ time_passes

SpecTimer == Init /\ [][NextTimer]_vars

\* ------------------------------------ aiotwirc.stdio.AsyncReadlinesDumb
\* bytes: a letter or the newline
Bytes == {"a", "nl"}
Inputs == UNION {[1..n -> Bytes] : n \in 0..MaxBytes}

\* the positions of the newlines in b
Newlines(b) == {i \in DOMAIN b : b[i] = "nl"}

\* b.partition(b'\n'): at the first newline
partition(b) ==
    IF Newlines(b) = {} THEN <<b, FALSE, <<>>>>
    ELSE LET k == CHOOSE i \in Newlines(b) : \A j \in Newlines(b) : i <= j
         IN  <<SubSeq(b, 1, k - 1), TRUE, SubSeq(b, k + 1, Len(b))>>

\* a partition at the first newline in the place of rpartition
rpartition_first(b) == partition(b)

\* b.rpartition(b'\n'): at the last newline; without one, the whole of b is
\* the third part
rpartition(b) ==
    IF Newlines(b) = {} THEN <<<<>>, FALSE, b>>
    ELSE LET k == CHOOSE i \in Newlines(b) : \A j \in Newlines(b) : j <= i
         IN  <<SubSeq(b, 1, k - 1), TRUE, SubSeq(b, k + 1, Len(b))>>

\* b.split(b'\n')
RECURSIVE split(_)
split(b) ==
    LET p == partition(b)
    IN  IF p[2] THEN <<p[1]>> \o split(p[3]) ELSE <<b>>

\* AsyncReadlinesDumb.on_readable (stdio.py:25-35) when read1 returns the
\* next n bytes; n = 0 is the end of the input
Dumb_on_readable(n) ==
    /\ d_reader
    /\ n <= Len(stdin)
    /\ n = 0 => stdin = <<>>
    /\ stdin' = SubSeq(stdin, n + 1, Len(stdin))
    /\ consumed' = Append(consumed, SubSeq(stdin, 1, n))
    /\ IF n = 0
       THEN /\ d_queue' = Append(d_queue, "eof")
            /\ d_reader' = FALSE
            /\ UNCHANGED d_buf
       ELSE LET p == rpartition(d_buf \o SubSeq(stdin, 1, n))
            IN  /\ d_buf' = p[3]
                /\ d_queue' = IF p[2] THEN d_queue \o split(p[1])
                               ELSE d_queue
                /\ UNCHANGED d_reader
    /\ UNCHANGED <<progVars, timerVars, routeVars, shVars, extVars, d_done,
                   yielded>>

\* AsyncReadlinesDumb.__anext__ (stdio.py:47-54) when queue.get() returns
Dumb_anext ==
    /\ ~d_done
    /\ d_queue # <<>>
    /\ d_queue' = Tail(d_queue)
    /\ IF Head(d_queue) = "eof"
       THEN d_done' = TRUE /\ UNCHANGED yielded
       ELSE yielded' = Append(yielded, Head(d_queue)) /\ UNCHANGED d_done
    /\ UNCHANGED <<progVars, timerVars, routeVars, shVars, extVars, stdin, d_reader,
                   d_buf, consumed>>

\* the fallback reader iterated by a task that is not cancelled, for every
\* input of up to MaxBytes bytes
InitDumb ==
    /\ pyver \in PyVersions
    /\ faulty = {}
    /\ handler = "primary"
    /\ ConnInit
    /\ NoSession
    /\ TimerInit
    /\ RouteInit(SourceCommands)
    /\ ShInit
    /\ ExtInit
    /\ \E input \in Inputs : DumbInit(input)

NextDumb ==
    \/ \E n \in 0..MaxBytes : Dumb_on_readable(n)
    \/ Dumb_anext

SpecDumb == InitDumb /\ [][NextDumb]_vars

\* ------------------------------------------------------- command routing
\* the verbs typed: after the '/' of a line up to the first blank
Methods == {"quit", "QUIT", "quot", "join", "send_raw", "reconnect", "say",
            "pingnow", "greet", "nosuch"}

\* '_' in method
HasUnderscore(method) == method \in {"send_raw"}

\* hasattr(self, 'command_' + x): command_load, command_unload,
\* command_quit, command_quot (__main__.py:142-214)
CoreCommands == {"load", "unload", "quit", "quot"}

\* the attributes of ServerConnection that are coroutine functions
\* (client.py:147-603); reconnect (204) is a plain function
ConnCoroutines ==
    {"connect", "disconnect", "_handle_client", "_process_line",
     "_handle_message", "_handle_other", "_handle_event", "send_items",
     "send_raw", "action", "admin", "cap", "ctcp", "ctcp_reply", "globops",
     "info", "invite", "ison", "join", "kick", "links", "list", "lusers",
     "mode", "motd", "names", "nick", "notice", "oper", "part", "pass_",
     "ping", "pong", "privmsg", "privmsg_many", "quit", "squit", "stats",
     "time", "topic", "trace", "user", "userhost", "users", "version",
     "wallops", "who", "whois", "whowas"}

\* plugin modules as an operator can have them in src/handlers: several
\* expose one verb, one exposes the name of a connection operation
OtherCommands ==
    [name \in Plugins |->
        CASE name = "ping" -> {"pingevery", "pingnow", "greet", "reconnect"}
          [] name = "say" -> {"say", "greet"}
          [] name = "log" -> {"join", "greet", "send_raw"}
          [] OTHER -> {}]

CommandTables == {SourceCommands, OtherCommands}

\* the loop over self.subhandlers.values() (__main__.py:226-232)
RECURSIVE FirstExposing(_, _, _)
FirstExposing(subs, table, verb) ==
    IF subs = <<>> THEN NoFn
    ELSE IF verb \in table[Head(subs)]
         THEN [kind |-> "plugin", name |-> verb, owner |-> Head(subs)]
         ELSE FirstExposing(Tail(subs), table, verb)

\* find_command trying the connection before the core commands
find_command_conn_first(method, subs, table) ==
    LET method_lower == lower(method)
    IN  IF ~HasUnderscore(method) /\ method_lower \in ConnCoroutines
        THEN [kind |-> "connection", name |-> method_lower,
              owner |-> "connection"]
        ELSE IF method_lower \in CoreCommands
        THEN [kind |-> "core", name |-> method_lower, owner |-> "client"]
        ELSE FirstExposing(subs, table, method_lower)

\* Client.find_command (__main__.py:216-232): the callable, NoFn for None
find_command(method, subs, table) ==
    LET method_lower == lower(method)
    IN  IF method_lower \in CoreCommands
        THEN [kind |-> "core", name |-> method_lower, owner |-> "client"]
        ELSE IF ~HasUnderscore(method) /\ method_lower \in ConnCoroutines
        THEN [kind |-> "connection", name |-> method_lower,
              owner |-> "connection"]
        ELSE FirstExposing(subs, table, method_lower)

\* the command a connection operation writes
Wire(op) == IF op = "join" THEN "JOIN" ELSE IF op = "quit" THEN "QUIT" ELSE "RAW"

\* Client.input_command (__main__.py:234-246) for a line with the verb
\* method: nothing is awaited when find_command returns None; a connection
\* operation is called with the words of the line and writes its command
\* (ServerNotConnectedError is printed); the commands of the Client and of
\* the plugins are recorded as the callable awaited
input_command(method) ==
    /\ mpc = "none"
    /\ unloading = 0
    /\ ninput < MaxInput
    /\ ninput' = ninput + 1
    /\ LET fn == find_command(method, subhandlers, commands)
       IN  /\ routed' = [method |-> method, fn |-> fn,
                         registry |-> subhandlers]
           /\ invoked' = IF fn = NoFn THEN invoked ELSE fn
           /\ wrote' = IF /\ fn.kind = "connection"
                          /\ send_raw_check(connected_event, _writer) = "ok"
                       THEN Written(_writer, Wire(fn.name))
                       ELSE wrote
    /\ UNCHANGED <<timerVars, dumbVars, shVars, extVars, commands, pyver, faulty,
                   connVars, sockVars, handler, handlers, nameVars,
                   eofWritten, aborted, loopVars, dpc, held, waitOn, cpc,
                   c_args, regTodo, dispVars, mpc, clientVars, spc, scancel,
                   queue, typed, quit_issued, mainVars, sendVars, plugVars>>

\* the Client with its plugins, the operator loading and unloading them and
\* typing command lines
InitRoute ==
    /\ pyver \in PyVersions
    /\ faulty = {}
    /\ handler = "event_handler"
    /\ ConnInit
    /\ TimerInit /\ DumbInit(<<>>) /\ ShInit /\ ExtInit
    /\ \E table \in CommandTables : RouteInit(table)
    /\ welcomed = FALSE
    /\ intentional_disconnect = FALSE
    /\ subhandlers = PLUGINS
    /\ PluginsLoaded
    /\ readlines = "unset"
    /\ spc = "none"
    /\ scancel = FALSE
    /\ queue = <<>>
    /\ ninput = 0
    /\ typed = <<>>
    /\ quit_issued = FALSE
    /\ delay = 0
    /\ short = FALSE
    /\ nsession = 0
    /\ sessionLog = <<>>
    /\ mpc = "none"

NextRoute ==
    \/ \E method \in Methods : input_command(method)
    \/ \E m \in {"ping", "log"} : command_load(m, "none")
    \/ \E m \in {"ping", "log"} : command_unload(m)
    \/ command_unload_Awaited
    \/ ConnectOnce(FALSE, FALSE)
    \/ ConnectOpened

SpecRoute == InitRoute /\ [][NextRoute]_vars

\* ------------------------------------------------------- ShowHide
\* the other variables of the modules
otherVars == <<timerVars, dumbVars, routeVars, extVars>>

\* ShowHide.show / ShowHide.hide (__main__.py:255-263): the counter and the
\* effects performed afterwards
ShowHide_call(calls, done, which) ==
    [_calls |-> calls + 1,
     effects |-> IF calls + 1 = 1 THEN Append(done, which) ELSE done]

\* handle_stdin, lines 91-98: the next line does not decode; linedata.hide()
\* is called on the record itself, then the print reads `line`, which is
\* unbound on the first line of the task
handle_stdin_Undecodable ==
    /\ sh_pc = "next"
    /\ nlines < MaxInput
    /\ nlines' = nlines + 1
    /\ _calls' = 0
    /\ requests' = <<"hide">>
    /\ effects' = <<"hide">>
    /\ sh_pc' = IF nlines = 0 THEN "failed" ELSE "next"
    /\ UNCHANGED <<progVars, otherVars>>

\* handle_stdin, lines 99-105, for a line find_command has nothing for:
\* input_command calls showhide.show() and returns (236-239), handle_stdin
\* calls showhide.show() again
handle_stdin_Invalid ==
    /\ sh_pc = "next"
    /\ nlines < MaxInput
    /\ nlines' = nlines + 1
    /\ LET first == ShowHide_call(0, <<>>, "show")
           second == ShowHide_call(first._calls, first.effects, "show")
       IN  /\ _calls' = second._calls
           /\ effects' = second.effects
    /\ requests' = <<"show", "show">>
    /\ sh_pc' = "next"
    /\ UNCHANGED <<progVars, otherVars>>

\* handle_stdin, lines 99-104: a new ShowHide for the line, input_command
\* awaits the callable of find_command
handle_stdin_Command ==
    /\ sh_pc = "next"
    /\ nlines < MaxInput
    /\ nlines' = nlines + 1
    /\ _calls' = 0
    /\ requests' = <<>>
    /\ effects' = <<>>
    /\ sh_pc' = "cmd"
    /\ UNCHANGED <<progVars, otherVars>>

\* the command calls showhide.show() or showhide.hide()
Command_showhide(which) ==
    /\ sh_pc = "cmd"
    /\ Len(requests) < MaxShowHide
    /\ LET r == ShowHide_call(_calls, effects, which)
       IN  _calls' = r._calls /\ effects' = r.effects
    /\ requests' = Append(requests, which)
    /\ UNCHANGED <<progVars, otherVars, sh_pc, nlines>>

\* the command returns or raises an Exception, which input_command prints
\* (__main__.py:240-246); handle_stdin calls showhide.show() (105)
input_command_Returns ==
    /\ sh_pc = "cmd"
    /\ LET r == ShowHide_call(_calls, effects, "show")
       IN  _calls' = r._calls /\ effects' = r.effects
    /\ requests' = Append(requests, "show")
    /\ sh_pc' = "next"
    /\ UNCHANGED <<progVars, otherVars, nlines>>

\* task.cancel() of main_async (__main__.py:281) while the command is
\* suspended: input_command catches the CancelledError where it is an
\* Exception, and handle_stdin goes on with line 105; where it is not, it
\* leaves input_command and handle_stdin
input_command_Cancelled ==
    /\ sh_pc = "cmd"
    /\ IF CancelledErrorIsException
       THEN /\ LET r == ShowHide_call(_calls, effects, "show")
               IN  _calls' = r._calls /\ effects' = r.effects
            /\ requests' = Append(requests, "show")
            /\ sh_pc' = "next"
       ELSE /\ sh_pc' = "cancelled"
            /\ UNCHANGED <<_calls, effects, requests>>
    /\ UNCHANGED <<progVars, otherVars, nlines>>

\* the input loop on its own, its commands calling show() and hide()
InitShowHide ==
    /\ pyver \in PyVersions
    /\ faulty = {}
    /\ handler = "primary"
    /\ ConnInit
    /\ ModulesInit
    /\ NoSession

NextShowHide ==
    \/ handle_stdin_Undecodable
    \/ handle_stdin_Invalid
    \/ handle_stdin_Command
    \/ \E which \in {"show", "hide"} : Command_showhide(which)
    \/ input_command_Returns
    \/ input_command_Cancelled

SpecShowHide == InitShowHide /\ [][NextShowHide]_vars

\* ---------------------------------------- commands that raise
\* the base class of the exception classes of client.py:83-99
Base(cls) ==
    CASE cls = "ServerNotConnectedError" -> "ServerConnectionError"
      [] cls = "ServerConnectionError" -> "IRCError"
      [] cls = "IRCError" -> "Exception"
      [] cls = "InvalidCharacters" -> "ValueError"
      [] cls = "MessageTooLong" -> "ValueError"
      [] cls = "ValueError" -> "Exception"
      [] cls = "Exception" -> "BaseException"
      [] OTHER -> "object"

\* issubclass(cls, of)
RECURSIVE issubclass(_, _)
issubclass(cls, of) ==
    IF cls = of THEN TRUE
    ELSE IF cls = "object" THEN FALSE
    ELSE issubclass(Base(cls), of)

\* the class of the exception send_raw raises for an outcome
ClassOf(outcome) ==
    IF outcome \in {"NotConnected", "ShuttingDown"}
    THEN "ServerNotConnectedError"
    ELSE outcome

\* an except clause for the connection's own errors only
except_IRCError(cls) == issubclass(cls, "IRCError")

\* `except Exception` of input_command (__main__.py:242)
except_Exception(cls) == issubclass(cls, "Exception")

\* a command of the operator sends string on a connection in the state
\* (conn, w) and send_raw raises (client.py:373-393); input_command prints
\* the traceback of an Exception (__main__.py:240-243) and handle_stdin
\* calls showhide.show() (105); any other exception ends the task
input_command_Raises(string, conn, w) ==
    /\ sh_pc = "cmd"
    /\ LET chk == send_raw_check(conn, w)
           outcome == IF chk # "ok" THEN chk ELSE _prep_message(string)
           r == ShowHide_call(_calls, effects, "show")
       IN  /\ outcome # "ok"
           /\ raised' = Append(raised, ClassOf(outcome))
           /\ IF except_Exception(ClassOf(outcome))
              THEN /\ printed' = Append(printed, ClassOf(outcome))
                   /\ _calls' = r._calls
                   /\ effects' = r.effects
                   /\ requests' = Append(requests, "show")
                   /\ sh_pc' = "next"
              ELSE /\ sh_pc' = "failed"
                   /\ UNCHANGED <<printed, _calls, effects, requests>>
    /\ UNCHANGED <<progVars, timerVars, dumbVars, routeVars, nreconnect,
                   editVars, wrapVars, defVars, nlines>>

\* the input loop under commands that send and fail
NextFail ==
    \/ handle_stdin_Invalid
    \/ handle_stdin_Command
    \/ \E which \in {"show", "hide"} : Command_showhide(which)
    \/ input_command_Returns
    \/ \E string \in SendStrings, conn \in BOOLEAN, w \in {NoSock, 1} :
          input_command_Raises(string, conn, w)

SpecFail == InitShowHide /\ [][NextFail]_vars

\* ------------------------------------------ the raw-mode terminal reader
\* byte codes of stdio.py:150-173
CTRL_D == 4
CTRL_H == 8
TAB    == 9
NL     == 10
CTRL_U == 21
CTRL_W == 23
SP     == 32
CARET  == 94
LETTER == 97
DEL    == 127
ESC    == 27

\* the bytes bytes.rstrip() strips: b' \t\n\r\x0b\x0c'
Whitespace == {SP, TAB, NL, 11, 12, 13}

\* b'\r\x1B[K': carriage return and clear-line
ClearLine == <<13, ESC, 91, 75>>

\* the item self.eof on the queue
EofItem == <<-1>>

\* b.rstrip()
RECURSIVE rstrip(_)
rstrip(b) ==
    IF b # <<>> /\ b[Len(b)] \in Whitespace
    THEN rstrip(SubSeq(b, 1, Len(b) - 1))
    ELSE b

\* b.rfind(c) as a 1-based position, 0 when c is not in b (Python's -1)
RECURSIVE rfind(_, _)
rfind(b, c) ==
    IF b = <<>> THEN 0
    ELSE IF b[Len(b)] = c THEN Len(b)
    ELSE rfind(SubSeq(b, 1, Len(b) - 1), c)

\* lines 172-173: a control byte in caret form
caret(s) == IF s[1] < SP THEN <<CARET, s[1] + 64>> ELSE s

\* word-erase without the rstrip() of line 164
word_erase_nostrip(b) == SubSeq(b, 1, rfind(b, SP))

\* lines 164-165: self.buf.rstrip(), then self.buf[:self.buf.rfind(b' ')+1]
word_erase(b) == SubSeq(rstrip(b), 1, rfind(rstrip(b), SP))

\* AsyncReadlinesTermios.on_readable (stdio.py:148-176) when read1(1)
\* returns s, a sequence of one byte or the empty sequence at the end
Termios_on_readable(s) ==
    /\ nkeys < MaxKeys
    /\ nkeys' = nkeys + 1
    /\ t_key' = s
    /\ IF s = <<>> \/ (s = <<CTRL_D>> /\ t_buf = <<>>)
       THEN /\ t_queue' = Append(t_queue, EofItem)
            /\ UNCHANGED t_buf
            /\ t_echo' = <<>>
       ELSE IF s \in {<<CTRL_H>>, <<DEL>>}
       THEN /\ t_buf' = IF t_buf # <<>>
                        THEN SubSeq(t_buf, 1, Len(t_buf) - 1) ELSE t_buf
            /\ t_echo' = IF t_buf # <<>> THEN <<CTRL_H, ESC, 91, 75>>
                         ELSE <<>>
            /\ UNCHANGED t_queue
       ELSE IF s = <<CTRL_U>>
       THEN /\ t_buf' = <<>>
            /\ t_echo' = IF t_buf # <<>> THEN ClearLine ELSE <<>>
            /\ UNCHANGED t_queue
       ELSE IF s = <<CTRL_W>>
       THEN /\ t_buf' = IF t_buf # <<>> THEN word_erase(t_buf) ELSE t_buf
            /\ t_echo' = IF t_buf # <<>> THEN ClearLine \o word_erase(t_buf)
                         ELSE <<>>
            /\ UNCHANGED t_queue
       ELSE IF s = <<NL>>
       THEN /\ t_queue' = Append(t_queue, t_buf)
            /\ t_buf' = <<>>
            /\ t_echo' = <<>>
       ELSE /\ t_buf' = t_buf \o caret(s)
            /\ t_echo' = caret(s)
            /\ UNCHANGED t_queue
    /\ UNCHANGED <<progVars, timerVars, dumbVars, routeVars, shVars,
                   nreconnect, wrapVars, failVars, defVars>>

\* what read1(1) returns: a key of the operator or the end of the input
Keys == {<<>>} \cup {<<b>> : b \in {CTRL_D, CTRL_H, TAB, NL, CTRL_U, CTRL_W,
                                   SP, LETTER, DEL}}

\* the terminal reader in raw mode under the keys of Keys
NextEdit == \E s \in Keys : Termios_on_readable(s)

SpecEdit == InitShowHide /\ [][NextEdit]_vars

\* ------------------------------------------------ the wrapped writers
\* str.encode(): UTF-8, two bytes for the letter e with acute
RECURSIVE encode(_)
encode(t) ==
    IF t = <<>> THEN <<>>
    ELSE (CASE Head(t) = "nl" -> <<NL>>
            [] Head(t) = "x" -> <<120>>
            [] Head(t) = "e'" -> <<195, 169>>) \o encode(Tail(t))

\* lines 120-121 without the pending buffer after the output
pending_write_noredraw(lines, pending) == ClearLine \o encode(lines)

\* lines 120-121: b'\r\x1B[K%s%s' % ((lines+nl).encode(), self.buf)
pending_write(lines, pending) == ClearLine \o encode(lines) \o pending

\* the closure write(s) of wrap_write (stdio.py:114-126); both branches
\* flush the stream
wrap_write_write(s) ==
    /\ w_pc = "wrapped"
    /\ nwrites < MaxWrites
    /\ nwrites' = nwrites + 1
    /\ w_written' = w_written \o s
    /\ LET p == rpartition(write_buf \o s)
       IN  /\ write_buf' = p[3]
           /\ w_out' =
                IF ~p[2] THEN w_out
                ELSE IF t_buf # <<>>
                THEN Append(w_out,
                            [layer |-> "buffer",
                             data |-> pending_write(p[1] \o <<"nl">>, t_buf)])
                ELSE Append(w_out, [layer |-> "text",
                                    data |-> p[1] \o <<"nl">>])
    /\ UNCHANGED <<progVars, timerVars, dumbVars, routeVars, shVars,
                   nreconnect, editVars, failVars, defVars, w_pc>>

\* the finally block of wrap_write (stdio.py:131-134), run by close():
\* the old write is put back and is handed what write_buf holds
wrap_write_exit ==
    /\ w_pc = "wrapped"
    /\ w_pc' = "exited"
    /\ w_out' = IF write_buf # <<>>
                THEN Append(w_out, [layer |-> "text", data |-> write_buf])
                ELSE w_out
    /\ UNCHANGED <<progVars, timerVars, dumbVars, routeVars, shVars,
                   nreconnect, editVars, failVars, defVars, write_buf,
                   w_written, nwrites>>

\* what the program writes in one call: print() calls write() for the text
\* and for the newline, a traceback is written in pieces
Writes == {<<"x">>, <<"nl">>, <<"e'", "nl">>, <<"x", "nl", "x">>}

\* a wrapped stream while the operator types a letter or kills the line
NextWrap ==
    \/ \E s \in Writes : wrap_write_write(s)
    \/ wrap_write_exit
    \/ \E s \in {<<LETTER>>, <<CTRL_U>>} : Termios_on_readable(s)

SpecWrap == InitShowHide /\ [][NextWrap]_vars

\* ------------------------------------------------- the default message
\* U+FFFD, what decode(errors='replace') puts for bytes that are not UTF-8
REPLACEMENT == 65533

\* s.encode('utf8') of set_buffer (stdio.py:141): one, two or three bytes
\* for a code point
RECURSIVE encode_utf8(_)
encode_utf8(t) ==
    IF t = <<>> THEN <<>>
    ELSE LET cp == Head(t)
         IN  (IF cp < 128 THEN <<cp>>
              ELSE IF cp < 2048 THEN <<192 + (cp \div 64), 128 + (cp % 64)>>
              ELSE <<224 + (cp \div 4096), 128 + ((cp \div 64) % 64),
                     128 + (cp % 64)>>) \o encode_utf8(Tail(t))

\* a continuation byte of UTF-8
Continuation(b) == b \in 128..191

\* self.buf.decode('utf8', errors='replace') of get_buffer (stdio.py:137):
\* a byte that starts no sequence, and a sequence that is cut short, give
\* one U+FFFD
RECURSIVE decode_replace(_)
decode_replace(b) ==
    IF b = <<>> THEN <<>>
    ELSE IF b[1] < 128 THEN <<b[1]>> \o decode_replace(Tail(b))
    ELSE IF b[1] \in 194..223
    THEN IF Len(b) > 1 /\ Continuation(b[2])
         THEN <<(b[1] - 192) * 64 + (b[2] - 128)>>
                  \o decode_replace(SubSeq(b, 3, Len(b)))
         ELSE <<REPLACEMENT>> \o decode_replace(Tail(b))
    ELSE IF b[1] \in 225..239
    THEN IF Len(b) > 2 /\ Continuation(b[2]) /\ Continuation(b[3])
         THEN <<(b[1] - 224) * 4096 + (b[2] - 128) * 64 + (b[3] - 128)>>
                  \o decode_replace(SubSeq(b, 4, Len(b)))
         ELSE IF Len(b) > 1 /\ Continuation(b[2])
         THEN <<REPLACEMENT>> \o decode_replace(SubSeq(b, 3, Len(b)))
         ELSE <<REPLACEMENT>> \o decode_replace(Tail(b))
    ELSE <<REPLACEMENT>> \o decode_replace(Tail(b))

\* line 116: current_buf in (last_buffer_set, ''), current_buf the text of
\* get_buffer()
unchanged_text(b, last) == decode_replace(b) \in {last, <<>>}

\* Client.set_default_msg(msg) (__main__.py:113-120) with set_buffer
\* (stdio.py:139-146)
set_default_msg(msg) ==
    /\ ndefault < MaxDefaults
    /\ ndefault' = ndefault + 1
    /\ IF unchanged_text(t_buf, last_buffer_set)
       THEN /\ t_buf' = encode_utf8(msg)
            /\ t_echo' = ClearLine \o encode_utf8(msg)
            /\ t_put' = encode_utf8(msg)
            /\ last_buffer_set' = msg
            /\ d_call' = [msg |-> msg, did |-> "set_buffer"]
       ELSE /\ d_call' = [msg |-> msg, did |-> "Not overriding"]
            /\ UNCHANGED <<t_buf, t_echo, t_put, last_buffer_set>>
    /\ UNCHANGED <<progVars, timerVars, dumbVars, routeVars, shVars,
                   nreconnect, wrapVars, failVars, t_queue, t_key, nkeys>>

\* the texts plugins propose: from chat lines, which are any valid UTF-8
Msgs == {<<LETTER>>, <<233>>, <<LETTER, REPLACEMENT>>}

\* default messages while the operator types a letter, a byte of a
\* Latin-1 terminal, backspace, newline
NextDefault ==
    \/ \E msg \in Msgs : set_default_msg(msg)
    \/ \E s \in {<<LETTER>>, <<233>>, <<DEL>>, <<NL>>} : Termios_on_readable(s)

SpecDefault == InitShowHide /\ [][NextDefault]_vars

\* the steps the event loop takes on its own once they are enabled: a ready
\* task is resumed, a timer (the timeout of wait_for, the sleep) fires.
\* What the server or the operator sends is not among them.
Scheduled ==
    \/ DisconnectDrained("stdin")
    \/ DisconnectWaitDone("stdin")
    \/ DisconnectTimeout("stdin")
    \/ DisconnectAfterCancel("stdin")
    \/ \E t \in Socks : HandlerReturns(t)
    \/ \E t \in Socks : CancelDelivered(t)
    \/ \E t \in Socks : aborted[t] /\ ReadEOF(t)   \* abort() feeds the EOF
    \/ ConnectRegNext
    \/ handle_stdin_Start
    \/ handle_stdin_NeverStarted
    \/ handle_stdin_Next
    \/ handle_stdin_Drained
    \/ handle_stdin_Cancelled
    \/ Client_connect_Welcomed
    \/ main_async_TaskCreated
    \/ main_async_Disconnected
    \/ main_async_TaskAwaited
    \/ main_async_Slept

SpecSessionFair == SpecSession /\ WF_vars(Scheduled)

\* ------------------------------------------------------------- properties
\* number of disconnect events dispatched for the connection on socket s
DiscCount(s) ==
    Cardinality({i \in DOMAIN eventLog :
                    eventLog[i].type = "disconnect" /\ eventLog[i].sock = s})

\* caller c is inside the teardown of disconnect() (it took the writer)
InTeardown(c) == dpc[c] \in {"drain", "wait", "cancelwait"}

\* the connection on socket s has ended and no teardown of it is under way
Ended(s) ==
    /\ hpc[s] \in {"done", "cancelled"}
    /\ ~\E c \in Callers : InTeardown(c) /\ held[c] = s

\* C1: every connection that reached Connected and then ended has had
\* exactly one disconnect event dispatched, whichever path ended it.
C1_ExactlyOneDisconnectEvent ==
    \A s \in Socks : Ended(s) => DiscCount(s) = 1

C3_ExactlyOneEvent == connected_event # disconnected_event

\* C3 amended: the two events are never both set, and from the first socket
\* opened by connect() on exactly one of them is set (before that, neither).
C3_ExactlyOneOnceOpened ==
    /\ ~(connected_event /\ disconnected_event)
    /\ (nsock > 0) => (connected_event # disconnected_event)
    /\ (nsock = 0) => (~connected_event /\ ~disconnected_event)

\* the read loop has ended the first connection and connect() has opened
\* a second one: Connected, Disconnected, Connected again
C3_Witness ==
    /\ nsock = 2
    /\ loopLog[1] # ""
    /\ connected_event /\ ~disconnected_event

\* C7: the step in which the read loop gets an empty read or a read failure
\* leaves the connection Disconnected (connected cleared, wait_disconnected
\* released) and the read-loop task finished normally.
C7_LoopEndsDisconnected ==
    [][\A t \in Socks :
          loopLog'[t] # loopLog[t]
              => /\ ~connected_event'
                 /\ disconnected_event'
                 /\ hpc'[t] = "done"]_vars

\* a read failure ended the loop of a connection that was Connected
C7_Witness ==
    \E t \in Socks :
        /\ loopLog[t] = "readline() failed"
        /\ hpc[t] = "done"
        /\ ~connected_event /\ disconnected_event

\* the lines of C10: no grammar match, PRIVMSG with one argument, QUIT with
\* no argument, NICK with no prefix
BadLines == {L_nomatch, L_privmsg1, L_quit0, L_nicknopfx}

\* C10: each of these lines makes _process_line raise, and the step that
\* drops it leaves the task at readline() with the connection state and the
\* dispatched events as they were.
C10_BadLineDropped ==
    [][\A t \in Socks :
          (/\ hpc[t] = "handling_raw" /\ ~hcancel[t]
           /\ cur[t] \in BadLines
           /\ hpc'[t] # hpc[t])
              => /\ ParseLine(cur[t], real_server_name, real_nickname).raised
                 /\ hpc'[t] = "read"
                 /\ connected_event' = connected_event
                 /\ disconnected_event' = disconnected_event
                 /\ eventLog' = eventLog]_vars

\* after a dropped line the next wire line was read and dispatched
C10_Witness ==
    /\ Len(eventLog) = 3
    /\ eventLog[1].type = "all_raw_messages"
    /\ eventLog[1].ev.arguments[1] \in BadLines
    /\ eventLog[2].type = "all_raw_messages"
    /\ eventLog[2].ev.arguments[1] = L_pubmsg
    /\ eventLog[3].type = "pubmsg"
    /\ connected_event

\* the events the connection dispatched for its wire lines
IsWireEvent(e) == e.type # "disconnect"
WireLog == SelectSeq(eventLog, IsWireEvent)

\* the parsed events of a line, and whether _process_line can raise on it
LineEvents(line) == ParseLine(line, "", None).events
CanRaise(line) ==
    \E rn \in {None, "me", "nick"} : ParseLine(line, "", rn).raised

\* position of the first all_raw_messages event after position i, or
\* Len(log) + 1
RECURSIVE NextRaw(_, _)
NextRaw(log, i) ==
    IF i + 1 > Len(log) THEN Len(log) + 1
    ELSE IF log[i + 1].type = "all_raw_messages" THEN i + 1
    ELSE NextRaw(log, i + 1)

\* log is, line after line in the order the lines were read, the
\* all_raw_messages event of the line followed by its parsed events in
\* order; the events of a line after which another line was read are
\* complete (or none, when _process_line raised on the line)
InWireOrder(log) ==
    /\ log # <<>> => log[1].type = "all_raw_messages"
    /\ \A i \in DOMAIN log :
          log[i].type = "all_raw_messages" =>
            LET line == log[i].ev.arguments[1]
                full == LineEvents(line)
                j == NextRaw(log, i)
                n == j - 1 - i
            IN  /\ n <= Len(full)
                /\ \A k \in 1..n : log[i + k].ev = full[k]
                /\ j <= Len(log) => \/ n = Len(full)
                                    \/ n = 0 /\ CanRaise(line)

\* the read-loop task t is inside the handler of an event of its line
InHandler(t) == hpc[t] \in {"handling_raw", "handling"}

C12_SendLimits ==
    [][(nsend' # nsend /\ send_raw_check(connected_event, _writer) = "ok")
         => LET string == lastSend'.string
                bytes == Utf8Len(string) + 2
            IN  /\ string.newline
                      => /\ lastSend'.outcome = "InvalidCharacters"
                         /\ wrote' = wrote
                /\ (~string.newline /\ bytes >= 513)
                      => /\ lastSend'.outcome = "MessageTooLong"
                         /\ wrote' = wrote
                /\ (~string.newline /\ bytes <= 512)
                      => /\ lastSend'.outcome = "ok"
                         /\ wrote' = Written(_writer, "RAW")]_vars

\* a line of 512 bytes was written and a later one of 513 bytes, 510
\* characters of which one takes two bytes, was refused
C12_Witness ==
    /\ lastSend.outcome = "MessageTooLong"
    /\ lastSend.string = Str(509, 1, FALSE)
    /\ lastSend.sock # NoSock
    /\ \E i \in DOMAIN wrote[lastSend.sock] : wrote[lastSend.sock][i] = "RAW"

\* disconnect() has taken the writer handle of socket s, or connect() has
\* replaced it
Taken(s) == s \in 1..nsock /\ _writer # s

\* C13: no step writes to a transport whose writer handle has been taken, and
\* a send_raw called while the connection is not connected or the handle is
\* taken raises ServerNotConnectedError and writes nothing.
C13_NoWriteAfterTake ==
    [][/\ \A s \in Socks : Taken(s) => wrote'[s] = wrote[s]
       /\ (nsend' # nsend /\ (~connected_event \/ _writer = NoSock))
             => /\ lastSend'.outcome \in {"NotConnected", "ShuttingDown"}
                /\ wrote' = wrote]_vars

\* a send was refused while a disconnect() that took the handle was still
\* in its teardown, after an earlier send had been written
C13_Witness ==
    /\ lastSend.outcome = "ShuttingDown"
    /\ InTeardown("ping")
    /\ connected_event
    /\ \E i \in DOMAIN wrote[held["ping"]] : wrote[held["ping"]][i] = "RAW"

IsRegistration(cmd) == cmd \in {"CAP", "PASS", "NICK", "USER"}
\* the place of a registration command in the fixed order
Rank(cmd) ==
    CASE cmd = "CAP" -> 1 [] cmd = "PASS" -> 2 [] cmd = "NICK" -> 3
      [] cmd = "USER" -> 4
Has(seq, cmd) == \E i \in DOMAIN seq : seq[i] = cmd

\* C14: the registration commands written to a socket are, in this order,
\* CAP (only with capabilities), PASS (only with a password), NICK, USER, or
\* a prefix of that list while connect() has not returned; connect() never
\* waits for the server between them.
C14_RegistrationOrder ==
    /\ \A s \in Socks :
          LET reg == SelectSeq(wrote[s], IsRegistration)
          IN  /\ \A i, j \in DOMAIN reg :
                    i < j => Rank(reg[i]) < Rank(reg[j])
              /\ Has(reg, "CAP") => c_args.caps
              /\ Has(reg, "PASS") => c_args.password
              /\ Has(reg, "NICK") =>
                    /\ c_args.caps => Has(reg, "CAP")
                    /\ c_args.password => Has(reg, "PASS")
              /\ (cpc = "returned" /\ _handler_coroutine = s)
                    => Has(reg, "NICK") /\ Has(reg, "USER")
    /\ cpc = "reg" => ENABLED ConnectRegNext

\* connect() with capabilities and a password has returned and no line was
\* read from the server
C14_Witness ==
    /\ cpc = "returned"
    /\ c_args = [caps |-> TRUE, password |-> TRUE]
    /\ nread = 0
    /\ wrote[1] = <<"CAP", "PASS", "NICK", "USER">>

\* the first character of a target
FirstChar(target) ==
    CASE target = "#chan" -> "#" [] target = "&chan" -> "&"
      [] target = "+chan" -> "+" [] target = "!chan" -> "!"
      [] OTHER -> "m"
ChannelLike(target) == FirstChar(target) \in {"#", "&", "+", "!"}

\* the all_raw_messages event at position i of log is that of a privmsg or
\* notice line with a target and a body
IsMessageAt(log, i) ==
    /\ log[i].type = "all_raw_messages"
    /\ log[i].ev.arguments[1].match
    /\ log[i].ev.arguments[1].command \in {"PRIVMSG", "NOTICE"}
    /\ Len(log[i].ev.arguments[1].arguments) >= 2
LineAt(log, i) == log[i].ev.arguments[1]
\* the parsed events dispatched so far for the line of position i, and
\* whether the line is done with (another line was read after it)
ParsedAt(log, i) == SubSeq(log, i + 1, NextRaw(log, i) - 1)
DoneAt(log, i) == NextRaw(log, i) <= Len(log)

HasTagged(body) == \E k \in DOMAIN dequote(body) : dequote(body)[k].tagged

\* C16: a privmsg or notice without tagged segments yields one event, of
\* type pubmsg / pubnotice when the target starts with #, &, + or !, and of
\* type privmsg / notice otherwise.
C16_PubPrivTypes ==
    \A i \in DOMAIN WireLog :
        (IsMessageAt(WireLog, i) /\ ~HasTagged(LineAt(WireLog, i).arguments[2]))
          => LET line == LineAt(WireLog, i)
                 parsed == ParsedAt(WireLog, i)
                 expected ==
                     IF line.command = "PRIVMSG"
                     THEN (IF ChannelLike(line.arguments[1])
                           THEN "pubmsg" ELSE "privmsg")
                     ELSE (IF ChannelLike(line.arguments[1])
                           THEN "pubnotice" ELSE "notice")
             IN  /\ Len(parsed) <= 1
                 /\ DoneAt(WireLog, i) => Len(parsed) = 1
                 /\ \A k \in DOMAIN parsed : parsed[k].type = expected

\* C17: a privmsg whose body is the tagged segment ACTION foo yields two
\* parsed events: the event of the message itself (the ctcp event with the
\* message's source and target and the arguments ACTION, foo) and then an
\* action event with the arguments foo.
C17_ActionTwoEvents ==
    \A i \in DOMAIN WireLog :
        (/\ IsMessageAt(WireLog, i)
         /\ LineAt(WireLog, i).command = "PRIVMSG"
         /\ LineAt(WireLog, i).arguments[2] = B_action)
          => LET line == LineAt(WireLog, i)
                 parsed == ParsedAt(WireLog, i)
             IN  /\ Len(parsed) <= 2
                 /\ DoneAt(WireLog, i) => Len(parsed) = 2
                 /\ Len(parsed) >= 1 =>
                       parsed[1].ev = Event("ctcp", line.prefix,
                                            line.arguments[1],
                                            <<"ACTION", "foo">>)
                 /\ Len(parsed) >= 2 =>
                       parsed[2].ev = Event("action", line.prefix,
                                            line.arguments[1], <<"foo">>)

\* both events of an ACTION privmsg were dispatched and the next line read
C17_Witness ==
    /\ Len(WireLog) >= 4
    /\ IsMessageAt(WireLog, 1)
    /\ LineAt(WireLog, 1).command = "PRIVMSG"
    /\ LineAt(WireLog, 1).arguments[2] = B_action
    /\ WireLog[3].type = "action"
    /\ WireLog[4].type = "all_raw_messages"

\* the event types C18 allows for the segments of a body, in order: ctcp
\* (privmsg) or ctcpreply (notice) for a tagged segment, followed by action
\* after a ctcp ACTION; the message's own type for a literal segment
RECURSIVE AllowedTypes(_, _, _)
AllowedTypes(segs, command, target) ==
    IF segs = <<>> THEN <<>>
    ELSE LET seg == Head(segs)
             own == IF command = "PRIVMSG"
                    THEN (IF ChannelLike(target) THEN {"pubmsg"}
                                                 ELSE {"privmsg"})
                    ELSE (IF ChannelLike(target) THEN {"pubnotice"}
                          ELSE {"privnotice", "notice"})
             here == IF ~seg.tagged THEN <<own>>
                     ELSE IF command = "PRIVMSG"
                     THEN (IF seg.data[1] = "ACTION"
                           THEN <<{"ctcp"}, {"action"}>> ELSE <<{"ctcp"}>>)
                     ELSE <<{"ctcpreply"}>>
         IN  here \o AllowedTypes(Tail(segs), command, target)

\* C18: whatever the segments of the body, the events of a privmsg have type
\* ctcp for every tagged segment and those of a notice ctcpreply, and the
\* event of a literal segment has the message's own type.
C18_TaggedTypes ==
    \A i \in DOMAIN WireLog :
        IsMessageAt(WireLog, i)
          => LET line == LineAt(WireLog, i)
                 parsed == ParsedAt(WireLog, i)
                 allowed == AllowedTypes(dequote(line.arguments[2]),
                                         line.command, line.arguments[1])
             IN  /\ Len(parsed) <= Len(allowed)
                 /\ DoneAt(WireLog, i) => Len(parsed) = Len(allowed)
                 /\ \A k \in DOMAIN parsed : parsed[k].type \in allowed[k]

\* the read-loop task created for socket t has not ended
Running(t) == hpc[t] \in {"read", "handling_raw", "handling", "self_wait"}

C8_AllRegisteredInvoked ==
    LET n == Len(lastCalls.invoked)
        m == Len(lastCalls.registered)
    IN  /\ n >= m
        /\ SubSeq(lastCalls.invoked, n - m + 1, n) = lastCalls.registered

\* the operator asked for the end of the session: a /quit line or the end
\* of input was entered during it
OperatorAsked == \E i \in DOMAIN typed : typed[i] \in {"quit", "eof"}

\* C4: the session loop stops only when the operator has entered /quit or
\* the end of input; a connection that drops otherwise is followed by a new
\* connection attempt.
C4_StopsOnlyOnRequest == (mpc = "stopped") => OperatorAsked

\* C5: once command_quit has been called the session loop terminates.
C5_QuitTerminates == quit_issued ~> (mpc = "stopped")

\* the number of "short" entries at the end of the session log
RECURSIVE TrailingShort(_)
TrailingShort(log) ==
    IF log = <<>> \/ log[Len(log)] # "short" THEN 0
    ELSE 1 + TrailingShort(SubSeq(log, 1, Len(log) - 1))

\* the base delay (__main__.py:291)
BaseDelay == 2

\* C6: when a session has ended unintentionally, after the k-th consecutive
\* short session the loop sleeps BaseDelay * 2^(k-1) seconds; after a long
\* session it starts the next one without sleeping.
C6_BackoffDelay ==
    [][(mpc = "await_task" /\ mpc' \in {"sleep", "start"})
          => LET k == TrailingShort(sessionLog')
             IN  /\ Len(sessionLog') = Len(sessionLog) + 1
                 /\ sessionLog'[Len(sessionLog')] =
                        (IF short THEN "short" ELSE "long")
                 /\ IF k >= 1
                    THEN mpc' = "sleep" /\ delay' = BaseDelay * 2 ^ (k - 1)
                    ELSE mpc' = "start"]_vars

\* a short session after a long one waits the base delay again
C6_Witness ==
    /\ mpc = "sleep"
    /\ Len(sessionLog) >= 2
    /\ sessionLog[Len(sessionLog) - 1] = "long"
    /\ sessionLog[Len(sessionLog)] = "short"
    /\ delay = BaseDelay

\* C9: in the last fan-out of an event to the client and its plugins, every
\* handler of the registry that exposes handle_<type> was invoked, in
\* registry order, whichever of them raised.
C9_LaterPluginsInvoked ==
    (lastFanout.type \notin {None, "all_raw_messages"})
        => lastFanout.invoked =
               SelectExposing(<<"client">> \o lastFanout.registry,
                              lastFanout.type)


\* the instances registered under some name
RegisteredInsts == {instOf[n] : n \in Names} \ {0}

\* C19: a /load that fails at module resolution, at instantiation or in the
\* load hook ends in HandlerImportError, and the registry maps every name,
\* the failing one included, to what it mapped to before.
C19_LoadFailure ==
    [][\A m \in LoadNames : \A fail \in {"import", "init", "load_hook"} :
           command_load(m, fail) =>
               /\ lastLoad'.outcome = "HandlerImportError"
               /\ instOf' = instOf
               /\ subhandlers' = subhandlers]_vars

\* C20: /load of a loaded plugin that has a reload hook puts a new instance
\* in its registry entry, calls load on it and then its reload hook with the
\* replaced instance, calls no unload hook and leaves the replaced
\* instance's task alone; the new instance's counter is the replaced one's.
C20_ReloadCarriesState ==
    [][\A m \in LoadNames :
           (command_load(m, "none") /\ instOf[m] # 0 /\ HasReload(m)) =>
               LET prev == instOf[m]
                   new == instOf'[m]
               IN  /\ new \notin RegisteredInsts \cup {0}
                   /\ new > ninst
                   /\ lastHooks' = <<Hook("load", new, 0),
                                     Hook("reload", new, prev)>>
                   /\ counter'[new] = counter[prev]
                   /\ counter'[prev] = counter[prev]
                   /\ (prev \in pingTask) = (prev \in pingTask')
                   /\ lastLoad'.outcome = "ok"]_vars

\* the ping plugin was reloaded when its counter had counted
C20_Witness ==
    /\ lastLoad.name = "ping"
    /\ lastLoad.outcome = "ok"
    /\ Len(lastHooks) = 2
    /\ lastHooks[2] = Hook("reload", instOf["ping"], 1)
    /\ counter[instOf["ping"]] > 0
    /\ counter[instOf["ping"]] = counter[1]


\* C21: while command_unload awaits the unload hook of an instance, the
\* instance is still registered under its name (the name is removed only when
\* the hook has completed); and an /unload of a name that is not loaded calls
\* no hook and leaves the registry as it was.
C21_UnloadHookFirst ==
    /\ [](unloading # 0 => unloading \in RegisteredInsts)
    /\ [][\A m \in LoadNames :
              (command_unload(m) /\ instOf[m] = 0) =>
                  /\ instOf' = instOf
                  /\ subhandlers' = subhandlers
                  /\ lastHooks' = <<>>]_vars


\* the calls before call i that returned False
FalseBefore(i) == {j \in 1..(i - 1) : ~spamLog[j].ret}

\* C30: of the calls of one caller the first returns False; a later call
\* returns True when it is made within `seconds` of the most recent call that
\* returned False, and False when it is made later than that: calls that
\* returned True do not restart the window.
C30_SpamWindow ==
    \A i \in DOMAIN spamLog :
        LET F == FalseBefore(i)
            last == CHOOSE j \in F : \A k \in F : k <= j
        IN  spamLog[i].ret =
                (F # {} /\ spamLog[i].at <= spamLog[last].at + spamLog[i].seconds)

\* False, then True inside the window, then False after the window of the
\* first call although inside a window counted from the second
C30_Witness ==
    /\ Len(spamLog) = 3
    /\ ~spamLog[1].ret /\ spamLog[2].ret /\ ~spamLog[3].ret
    /\ spamLog[3].at <= spamLog[2].at + spamLog[3].seconds


\* the bytes read so far, and the whole input
Flat(chunks) ==
    LET RECURSIVE F(_)
        F(i) == IF i > Len(chunks) THEN <<>> ELSE chunks[i] \o F(i + 1)
    IN  F(1)
WholeInput == Flat(consumed) \o stdin

\* the newline-terminated lines of b, in order, without their terminators
TerminatedLines(b) ==
    LET nl == Newlines(b)
        Start(k) == IF \E j \in nl : j < k
                    THEN 1 + CHOOSE j \in nl :
                                 j < k /\ \A h \in nl : h < k => h <= j
                    ELSE 1
        Nth(n) == CHOOSE k \in nl : Cardinality({j \in nl : j <= k}) = n
    IN  [n \in 1..Cardinality(nl) |-> SubSeq(b, Start(Nth(n)), Nth(n) - 1)]

\* C29: however the input is split into chunks, the lines yielded so far are
\* the first newline-terminated lines of the input, in order; the lines
\* yielded and queued are those of the bytes read; and when the sequence has
\* ended the input is at its end and every terminated line was yielded.
C29_DumbLines ==
    /\ yielded \o SelectSeq(d_queue, LAMBDA x : x # "eof")
           = TerminatedLines(Flat(consumed))
    /\ Len(yielded) <= Len(TerminatedLines(WholeInput))
    /\ yielded = SubSeq(TerminatedLines(WholeInput), 1, Len(yielded))
    /\ d_done => stdin = <<>> /\ yielded = TerminatedLines(WholeInput)

\* the sequence has ended after two lines and an unterminated tail; one
\* chunk held a newline and after it the start of the next line
C29_Witness ==
    /\ d_done
    /\ Len(yielded) = 2
    /\ d_buf # <<>>
    /\ \E i \in DOMAIN consumed :
           /\ Len(consumed[i]) >= 2
           /\ consumed[i][Len(consumed[i])] # "nl"
           /\ Newlines(consumed[i]) # {}
    /\ \E i \in DOMAIN yielded : Len(yielded[i]) > 0


\* the last command written to the connection's transport
LastWritten == IF _writer = NoSock \/ wrote[_writer] = <<>> THEN None
               ELSE wrote[_writer][Len(wrote[_writer])]

\* C27: on a live connection the registered ping instance's idle task is
\* there to send a PING once the idle interval has passed; the PING it sends
\* has a fresh token; a PONG for that token dispatched in time keeps the
\* connection and puts the task back in its idle wait; after the timeout the
\* task sends QUIT and disconnects the connection.
C27_PingLiveness ==
    /\ []((connected_event /\ _writer # NoSock /\ instOf["ping"] # 0)
             => instOf["ping"] \in pingTask)
    /\ [][\A i \in Insts :
            /\ (i \in pingTask /\ ipc[i] = "idle" /\ ipc'[i] = "pong") =>
                   /\ counter'[i] = counter[i] + 1
                   /\ LastWritten' = "PING"
            /\ (i \in pingTask /\ ipc[i] = "pong" /\ ipc'[i] = "idle") =>
                   /\ i \in pingTask'
                   /\ UNCHANGED <<connected_event, _writer, wrote, dpc>>
            /\ (/\ i \in pingTask /\ ipc[i] = "sleep" /\ i \notin pingTask'
                /\ connected_event /\ _writer # NoSock) =>
                       /\ wrote'[_writer] = Append(wrote[_writer], "QUIT")
                       /\ _writer' = NoSock
                       /\ dpc'["ping"] = "drain"]_vars


\* C28: when the session loop reconnects, every name of the plugin host maps
\* to the instance it mapped to before the disconnect, and that instance has
\* the state it had accumulated (no /load or /unload happens in between).
C28_InstancesPersist ==
    [][(nsession >= 1 /\ nsession' = nsession + 1) =>
           /\ instOf' = instOf
           /\ \A n \in Names :
                  instOf[n] # 0 => counter'[instOf'[n]] = counter[instOf[n]]]_vars


\* C22: find_command picks the core command_<verb>; else, for a verb without
\* '_', the connection's coroutine operation of that name; else the first
\* plugin of the registry, in registration order, that exposes
\* command_<verb>; when nothing matches no command is awaited and nothing is
\* written to the connection.
RouteExposing ==
    {k \in DOMAIN routed.registry :
        lower(routed.method) \in commands[routed.registry[k]]}

C22_Routing ==
    /\ [](routed # NoRoute =>
            LET v == lower(routed.method)
                fn == routed.fn
                core == v \in CoreCommands
                conn == ~HasUnderscore(routed.method) /\ v \in ConnCoroutines
            IN  /\ core => fn.kind = "core" /\ fn.name = v
                /\ (~core /\ conn) => fn.kind = "connection" /\ fn.name = v
                /\ (~core /\ ~conn /\ RouteExposing # {}) =>
                       /\ fn.kind = "plugin" /\ fn.name = v
                       /\ \E k \in RouteExposing :
                              /\ fn.owner = routed.registry[k]
                              /\ \A j \in RouteExposing : k <= j
                /\ (~core /\ ~conn /\ RouteExposing = {}) => fn = NoFn)
    /\ [][(ninput' = ninput + 1 /\ routed'.fn = NoFn) =>
             UNCHANGED <<invoked, wrote, plugVars, clientVars>>]_vars

\* a verb two registered plugins expose was routed after the registration
\* order had changed, and a verb no one answers was typed
C22_Witness ==
    /\ routed.fn.kind = "plugin"
    /\ Cardinality(RouteExposing) >= 2
    /\ routed.registry # PLUGINS
    /\ invoked.kind = "plugin"


\* C23: for every line the input loop has consumed and is through with,
\* exactly one of linedata.show and linedata.hide has been performed, once,
\* and it is the one that was requested first; at no time more than one is
\* performed.
C23_OneEffect ==
    /\ Len(effects) <= 1
    /\ requests # <<>> => effects = <<requests[1]>>
    /\ (nlines > 0 /\ sh_pc # "cmd") => Len(effects) = 1


\* C24: when main_async leaves its finally block (lines 276-285), after the
\* wait for the disconnect returned or was cancelled, the terminal task
\* has had its cancel() and has ended, main_async has not died of the
\* task's CancelledError, and the reader is not iterating any more: its
\* callback is removed, the terminal attributes and the writes of stdout
\* and stderr are restored.
InFinally == mpc \in {"await_task", "await_task_exc"}

C24_SessionLeft ==
    /\ [](InFinally => readlines # "open")
    /\ [][(InFinally /\ mpc' # mpc) =>
             /\ spc \in {"done", "cancelled"}
             /\ ~scancel
             /\ readlines # "open"
             /\ mpc' \in {"stopped", "sleep", "start", "interrupted"}
             /\ spc' = spc /\ readlines' = readlines]_vars

\* the task was cancelled inside a command and ended with the
\* CancelledError; main_async went on to the pause before it reconnects
C24_Witness ==
    /\ mpc \in {"sleep", "start"}
    /\ spc = "cancelled"
    /\ readlines = "closed"
    /\ ~intentional_disconnect


\* the input loop has taken the end of input of this session from the queue
EofTaken ==
    \E i \in DOMAIN typed :
        typed[i] = "eof" /\ i <= Len(typed) - Len(queue)

\* the connection can send
Live == connected_event /\ _writer # NoSock

\* C25: the end of input ends the sequence of lines: once the input loop
\* has taken it, it takes nothing more from the terminal. At that step it
\* marks the disconnect as intentional and writes QUIT if the connection
\* is live; it calls disconnect() and ends; the session loop makes no new
\* connection afterwards and stops.
C25_EndOfInput ==
    /\ [][EofTaken => (nsession' = nsession /\ Len(queue') >= Len(queue))]_vars
    /\ [][(~EofTaken /\ EofTaken') =>
             /\ intentional_disconnect'
             /\ IF Live
                THEN wrote' = [wrote EXCEPT ![_writer] = Append(@, "QUIT")]
                ELSE wrote' = wrote]_vars
    /\ [](EofTaken => intentional_disconnect)
    /\ [](EofTaken /\ spc = "done" => ~Live)
    /\ EofTaken ~> (spc \in {"done", "cancelled"})
    /\ EofTaken ~> (mpc = "stopped")

\* the number of lines the input loop has taken in this session
Taken26 == Len(typed) - Len(queue)

\* a command of the input loop is in progress
InCommand == spc \in {"quit_drain", "say_drain", "cmd_disconnect"}

\* C26: the input loop takes the lines in the order in which they were
\* completed, one at a time: when it takes a line no command is in
\* progress, the line is the oldest one not yet taken, and the command that
\* starts is the command of that line.
C26_LinesInOrder ==
    /\ [](Taken26 >= 0 /\ queue = SubSeq(typed, Taken26 + 1, Len(typed)))
    /\ [][(nsession' = nsession /\ Len(queue') < Len(queue)) =>
             LET line == typed[Taken26 + 1]
             IN  /\ ~InCommand
                 /\ spc = "get"
                 /\ typed' = typed
                 /\ queue' = SubSeq(typed, Taken26 + 2, Len(typed))
                 /\ (line = "quit") =>
                        /\ quit_issued'
                        /\ spc' \in {"quit_drain", "cmd_disconnect", "get"}
                 /\ (line = "say") => spc' \in {"say_drain", "get"}
                 /\ (line = "eof") => spc' \in {"eof_quit_drain", "eof_disconnect", "done"}
                 /\ (line # "quit") => quit_issued' = quit_issued]_vars

\* two lines were typed while the first command was in progress; the
\* second command has started after the first had ended
C26_Witness ==
    /\ typed = <<"say", "quit">>
    /\ queue = <<>>
    /\ quit_issued
    /\ spc = "quit_drain"
    /\ \E s \in Socks : wrote[s] # <<>> /\ Len(wrote[s]) >= 2
         /\ wrote[s][Len(wrote[s])] = "QUIT"
         /\ wrote[s][Len(wrote[s]) - 1] = "PRIVMSG"


\* C31: a call of reconnect() re-establishes the connection with the
\* arguments saved by the last connect(): the call starts connect() (its
\* quit when connected, the opening of a socket otherwise) with c_args
C31_ReconnectConnects ==
    [][nreconnect' = nreconnect + 1
         => /\ cpc' \in {"opening", "quit_drain"}
            /\ c_args' = c_args]_vars


Dispatched ==
    IF Len(eventLog') = Len(eventLog) + 1
    THEN eventLog'[Len(eventLog')].ev
    ELSE [type |-> None, arguments |-> <<>>]

\* C33: after a reload of the ping plugin at most one idle-ping task of the
\* plugin is live, and the PONG of every PING sent is matched to the
\* instance that waits for it: a dispatched PONG with the token an instance
\* waits for ends that instance's wait, so that no PING-timeout teardown
\* follows when the server answers.
C33_ReloadOneTimer ==
    /\ []((lastLoad.name = "ping" /\ lastLoad.outcome = "ok")
             => Cardinality(pingTask) <= 1)
    /\ [][\A i \in pingTask :
             (/\ ipc[i] = "pong"
              /\ Dispatched.type = "pong"
              /\ args(Dispatched) = str(counter[i]))
                 => ipc'[i] = "idle"]_vars


\* C34: when the server closes the connection after the socket was opened
\* and before the welcome numeric arrived, main_async does not stay in the
\* wait for the welcome: it goes on to its disconnect handling and stops,
\* pauses or starts the next session.
C34_ClosedBeforeWelcome ==
    (mpc = "wait_welcome" /\ ~welcomed /\ disconnected_event)
        ~> (mpc \in {"await_task", "sleep", "start", "stopped"})


\* the length of b without its trailing whitespace
StrippedLen(b) ==
    LET K == {0} \cup {k \in 1..Len(b) : b[k] \notin Whitespace}
    IN  CHOOSE k \in K : \A j \in K : j <= k

\* the position of the last space of b that is followed by a word
KeptLen(b) ==
    LET K == {0} \cup {k \in 1..StrippedLen(b) : b[k] = SP}
    IN  CHOOSE k \in K : \A j \in K : j <= k

\* C35: the transitions of the raw-mode editor buffer.  Backspace removes
\* the last byte and changes nothing on an empty buffer; line-kill empties
\* the buffer; word-erase drops the trailing whitespace and cuts just after
\* the last space that remains; newline queues the buffer as one line and
\* empties it; end-of-transmission ends the input on an empty buffer and
\* does not end it otherwise; any other control byte is appended as a caret
\* and the byte plus 64.
C35_EditorTransitions ==
    [][nkeys' = nkeys + 1 =>
        LET s == t_key'
            edits == {<<CTRL_H>>, <<DEL>>, <<CTRL_U>>, <<CTRL_W>>, <<NL>>}
        IN  /\ s \in {<<CTRL_H>>, <<DEL>>} =>
                  /\ t_buf' = SubSeq(t_buf, 1, Len(t_buf) - 1)
                  /\ t_queue' = t_queue
            /\ s = <<CTRL_U>> => (t_buf' = <<>> /\ t_queue' = t_queue)
            /\ s = <<CTRL_W>> =>
                  /\ t_buf' = SubSeq(t_buf, 1, KeptLen(t_buf))
                  /\ t_queue' = t_queue
            /\ s = <<NL>> =>
                  (t_queue' = Append(t_queue, t_buf) /\ t_buf' = <<>>)
            /\ (s = <<CTRL_D>> /\ t_buf = <<>>) =>
                  (t_queue' = Append(t_queue, EofItem) /\ t_buf' = <<>>)
            /\ (s = <<CTRL_D>> /\ t_buf # <<>>) => t_queue' = t_queue
            /\ (s # <<>> /\ s \notin edits /\ s[1] < SP
                  /\ ~(s = <<CTRL_D>> /\ t_buf = <<>>)) =>
                  /\ t_buf' = t_buf \o <<CARET, s[1] + 64>>
                  /\ t_queue' = t_queue]_vars

\* a word-erase cut the buffer just after a space
C35_Witness ==
    /\ nkeys = MaxKeys
    /\ t_key = <<CTRL_W>>
    /\ t_buf = <<LETTER, SP>>


\* the text of UTF-8 bytes
RECURSIVE Decoded(_)
Decoded(b) ==
    IF b = <<>> THEN <<>>
    ELSE IF b[1] = NL THEN <<"nl">> \o Decoded(Tail(b))
    ELSE IF b[1] = 120 THEN <<"x">> \o Decoded(Tail(b))
    ELSE IF Len(b) > 1 /\ b[1] = 195 /\ b[2] = 169
         THEN <<"e'">> \o Decoded(Tail(Tail(b)))
    ELSE <<"?">> \o Decoded(Tail(b))

\* the position of the last element of b that is nl, 0 without one
LastOf(b, nl) ==
    LET K == {0} \cup {k \in 1..Len(b) : b[k] = nl}
    IN  CHOOSE k \in K : \A j \in K : j <= k

\* the output in what the stream was handed: the str of the old write, the
\* bytes between the clear-line and the redraw of fp.buffer.write
OutputOf(rec) ==
    IF rec.layer = "text" THEN rec.data
    ELSE Decoded(SubSeq(rec.data, Len(ClearLine) + 1, LastOf(rec.data, NL)))

RECURSIVE OutputText(_)
OutputText(recs) ==
    IF recs = <<>> THEN <<>>
    ELSE OutputOf(Head(recs)) \o OutputText(Tail(recs))

\* C36: a write through the wrapped writer hands the stream whole lines
\* only; while an input line is pending the stream gets carriage return,
\* clear-line, the lines, and the pending buffer again; the tail after the
\* last newline is kept until a later write brings its newline or the
\* wrapper exits, which hands it to the stream; at every moment the output
\* handed on followed by the tail kept is the text written, in its order.
C36_WholeLinesInOrder ==
    /\ [](OutputText(w_out) \o (IF w_pc = "wrapped" THEN write_buf ELSE <<>>)
             = w_written)
    /\ [][nwrites' = nwrites + 1 =>
            LET all == write_buf \o
                       SubSeq(w_written', Len(w_written) + 1, Len(w_written'))
                k == LastOf(all, "nl")
            IN  /\ write_buf' = SubSeq(all, k + 1, Len(all))
                /\ k = 0 => w_out' = w_out
                /\ k > 0 =>
                     /\ Len(w_out') = Len(w_out) + 1
                     /\ SubSeq(w_out', 1, Len(w_out)) = w_out
                     /\ OutputOf(w_out'[Len(w_out')]) = SubSeq(all, 1, k)
                /\ (k > 0 /\ t_buf # <<>>) =>
                     LET d == w_out'[Len(w_out')].data
                     IN  /\ SubSeq(d, 1, 4) = <<13, ESC, 91, 75>>
                         /\ SubSeq(d, Len(d) - Len(t_buf) + 1, Len(d)) = t_buf
                         /\ Len(d) = 4 + Len(encode(SubSeq(all, 1, k)))
                                       + Len(t_buf)]_vars
    /\ [][(w_pc = "wrapped" /\ w_pc' = "exited") =>
            w_out' = IF write_buf = <<>> THEN w_out
                     ELSE Append(w_out, [layer |-> "text",
                                         data |-> write_buf])]_vars

\* lines were handed on above a pending input line, a tail was kept and the
\* exit handed it on
C36_Witness ==
    /\ w_pc = "exited"
    /\ Len(w_out) > 1
    /\ w_out[1].layer = "buffer"
    /\ w_out[Len(w_out)] = [layer |-> "text", data |-> <<"x">>]


\* C37: whichever way a connection left Connected (disconnect(), EOF from
\* the peer, a read failure, the timeout), once its read loop has ended and
\* no teardown is under way the transport is released: the writer handle is
\* cleared and the transport was half-closed or aborted.
C37_TransportReleased ==
    \A s \in Socks :
        Ended(s) => /\ _writer # s
                    /\ (eofWritten[s] > 0 \/ aborted[s])


\* C38: an exception raised by an operator command (a send while not
\* connected, a message that is too long or holds a newline) is printed on
\* the terminal and the input loop goes on: it is back at the wait for the
\* next line, and it never stops because of the failure.
C38_FailureReported ==
    /\ [][raised' # raised =>
            /\ printed' = Append(printed, raised'[Len(raised')])
            /\ sh_pc' = "next"
            /\ nlines' = nlines]_vars
    /\ [](sh_pc \in {"next", "cmd"} /\ Len(printed) = Len(raised))

\* after a command that failed for the length of its message the next line
\* was taken and its command runs
C38_Witness ==
    /\ raised = <<"MessageTooLong">>
    /\ printed = raised
    /\ nlines = 2
    /\ sh_pc = "cmd"


\* C39: a terminal line that is not valid UTF-8, the first line of the
\* input included, is hidden and reported and the loop goes on with the
\* next line: no command starts for it and the input task does not fail.
C39_UndecodableSkipped ==
    /\ [][(sh_pc = "next" /\ nlines' = nlines + 1
             /\ requests' = <<"hide">>)
            => (sh_pc' = "next" /\ effects' = <<"hide">>)]_vars
    /\ [](sh_pc # "failed")


\* the UTF-8 bytes of the code points plugins propose
Utf8Of(cp) ==
    CASE cp = LETTER -> <<LETTER>>
      [] cp = 233 -> <<195, 169>>
      [] cp = REPLACEMENT -> <<239, 191, 189>>

RECURSIVE Utf8(_)
Utf8(t) == IF t = <<>> THEN <<>> ELSE Utf8Of(Head(t)) \o Utf8(Tail(t))

\* C40: set_default_msg(msg) replaces the pending input buffer when the
\* buffer is empty or is still what the previous set_default_msg put
\* there; in every other case it leaves the pending buffer as it is.
C40_DefaultMsg ==
    [][ndefault' = ndefault + 1 =>
          IF t_buf = <<>> \/ t_buf = t_put
          THEN t_buf' = Utf8(d_call'.msg)
          ELSE t_buf' = t_buf]_vars

====
